---- MODULE Spec2Model ----
(***************************************************************************)
(* Candor JIT middle-end: HIR construction and SSA passes (src/src/hir.cc) *)
(* and the linear-scan register allocator (src/src/lir.cc).                *)
(*                                                                         *)
(* Interval ids are 1-based here: interval k of the model is the interval  *)
(* with id k-1 of the code, so the fixed interval of register index r is   *)
(* interval r+1.  NULL pointers are 0.                                     *)
(***************************************************************************)
EXTENDS Integers, Sequences, FiniteSets, TLC

\* ------------------------------------------------------------------ bounds
\* Number of non-control HIR instructions lowered into one LIR function.
MaxOps == 1
\* Largest number of arguments of the compiled function.
MaxArgs == 11

\* ------------------------------------------------------- program constants
kLIRRegisterCount == 10
INT_MAX == 2147483647

Regs == 0 .. (kLIRRegisterCount - 1)

\* --------------------------------------------------------- list primitives
RemoveAt(s, i) == [k \in 1 .. (Len(s) - 1) |-> IF k < i THEN s[k] ELSE s[k + 1]]

InsertAt(s, i, x) ==
  [k \in 1 .. (Len(s) + 1) |-> IF k < i THEN s[k] ELSE IF k = i THEN x ELSE s[k - 1]]

Unshift(s, x) == <<x>> \o s

SeqSet(s) == {s[k] : k \in 1 .. Len(s)}

Min2(a, b) == IF a < b THEN a ELSE b

\* ZoneList::InsertSorted: the new item goes after every item that does not
\* compare greater than it.
InsertSortedPos(keys, key) ==
  LET later == {k \in 1 .. Len(keys) : keys[k] > key}
  IN IF later = {} THEN Len(keys) + 1
     ELSE CHOOSE k \in later : \A j \in later : k <= j

\* ZoneList::Sort: items ordered by key, ties kept in list order.  `s` is a
\* sequence of <<key, item>> pairs.
RECURSIVE SortPairs(_)
SortPairs(s) ==
  IF s = <<>> THEN <<>>
  ELSE LET rest == SortPairs(Tail(s))
           lower == {k \in 1 .. Len(rest) : rest[k][1] < Head(s)[1]}
       IN InsertAt(rest, Cardinality(lower) + 1, Head(s))

\* ------------------------------------------------------- LRange, LInterval
NewInterval(type, index) ==
  [type |-> type, index |-> index, fixed |-> FALSE, ranges |-> <<>>,
   uses |-> <<>>, split_parent |-> 0, split_children |-> <<>>,
   register_hint |-> -1]

IntervalStart(iv) == iv.ranges[1][1]
IntervalEnd(iv) == iv.ranges[Len(iv.ranges)][2]

is_virtual(iv) == iv.type = "virtual"
is_register(iv) == iv.type = "register"
is_stackslot(iv) == iv.type = "stackslot"
is_const(iv) == iv.type = "const"

IsEqual(a, b) == a.type = b.type /\ a.index = b.index

\* LInterval::Covers
RECURSIVE CoversFrom(_, _, _)
CoversFrom(ranges, k, pos) ==
  IF k > Len(ranges) THEN FALSE
  ELSE IF ranges[k][1] > pos THEN FALSE
  ELSE IF ranges[k][2] > pos THEN TRUE
  ELSE CoversFrom(ranges, k + 1, pos)

Covers(iv, pos) == CoversFrom(iv.ranges, 1, pos)

\* LRange::FindIntersection
RangeFindIntersection(a, b) ==
  IF a[1] >= b[1] /\ a[1] < b[2] THEN a[1]
  ELSE IF b[1] >= a[1] /\ b[1] < a[2] THEN b[1]
  ELSE -1

\* LInterval::FindIntersection
RECURSIVE FindIntersectionFrom(_, _, _, _)
FindIntersectionFrom(ar, br, i, j) ==
  IF i > Len(ar) THEN -1
  ELSE IF j > Len(br) THEN FindIntersectionFrom(ar, br, i + 1, 1)
  ELSE LET r == RangeFindIntersection(ar[i], br[j])
       IN IF r # -1 THEN r ELSE FindIntersectionFrom(ar, br, i, j + 1)

FindIntersection(a, b) == FindIntersectionFrom(a.ranges, b.ranges, 1, 1)

\* ------------------------------------------------------------------- LGen
\* The operators below take and return `g`, the LGen object: a record of
\* its lists (intervals_, unhandled_, ...), of the LUse and LInstruction
\* objects it owns, and of `err`, the assertion that failed ("" if none).

Fail(g, what) == IF g.err = "" THEN [g EXCEPT !.err = what] ELSE g

\* LGen::CreateInterval; the new interval is the last of intervals_.
CreateInterval(g, type, index) ==
  [g EXCEPT !.intervals_ = Append(@, NewInterval(type, index))]

CreateVirtual(g) == CreateInterval(g, "virtual", -1)
CreateConst(g) == CreateInterval(g, "const", -1)

LastInterval(g) == Len(g.intervals_)

UseId(g, u) == g.luse[u].instr

UseKeys(g, uses) == [k \in 1 .. Len(uses) |-> UseId(g, uses[k])]

\* LInterval::Use: a new LUse (the last of luse), inserted sorted by the id
\* of its instruction.
Use(g, i, type, instr) ==
  LET u == Len(g.luse) + 1
      uses == g.intervals_[i].uses
      p == InsertSortedPos(UseKeys(g, uses), instr)
  IN [g EXCEPT !.luse = Append(@, [interval |-> i, type |-> type, instr |-> instr]),
               !.intervals_[i].uses = InsertAt(uses, p, u)]

LastUse(g) == Len(g.luse)

\* LInterval::AddRange
AddRange(g, i, start, end) ==
  LET ranges == g.intervals_[i].ranges
  IN IF Len(ranges) > 0 /\ ranges[1][1] = end
     THEN [g EXCEPT !.intervals_[i].ranges[1] = <<start, ranges[1][2]>>]
     ELSE LET g1 == IF Len(ranges) > 0 /\ ~(end < ranges[1][1])
                    THEN Fail(g, "AddRange") ELSE g
          IN [g1 EXCEPT !.intervals_[i].ranges = Unshift(ranges, <<start, end>>)]

\* LInterval::UseAfter; 0 is NULL.  use_type "any" matches every use.
RECURSIVE UseAfterFrom(_, _, _, _, _)
UseAfterFrom(g, uses, k, pos, use_type) ==
  IF k > Len(uses) THEN 0
  ELSE IF UseId(g, uses[k]) >= pos /\
          (use_type = "any" \/ g.luse[uses[k]].type = use_type)
       THEN uses[k]
       ELSE UseAfterFrom(g, uses, k + 1, pos, use_type)

UseAfter(g, i, pos, use_type) ==
  UseAfterFrom(g, g.intervals_[i].uses, 1, pos, use_type)

\* LGen::Spill
Spill(g, i) ==
  LET g1 == IF is_stackslot(g.intervals_[i]) THEN Fail(g, "Spill") ELSE g
  IN [g1 EXCEPT !.intervals_[i].type = "stackslot",
                !.intervals_[i].index = -1,
                !.unhandled_spills_ = Append(@, i)]

\* LInterval::Allocate
Allocate(g, i, reg) ==
  [g EXCEPT !.intervals_[i].type = "register", !.intervals_[i].index = reg]

NewInstruction(type, block, hascall) ==
  [type |-> type, block |-> block, hascall |-> hascall, inputs |-> <<>>,
   scratches |-> <<>>, result |-> 0, moves |-> <<>>, tmp |-> 0]

\* LGen::IsBlockStart
IsBlockStart(g, pos) ==
  \E k \in 1 .. Len(g.blocks_) : g.lblocks[g.blocks_[k]].start_id = pos

\* The search loops of LGen::GetGap: the block and the list item the search
\* stops at.  item = 0 is lhead == NULL.
RECURSIVE GetGapSearch(_, _, _)
GetGapSearch(g, k, pos) ==
  IF k > Len(g.blocks_) THEN [block |-> 0, item |-> 0]
  ELSE LET l == g.lblocks[g.blocks_[k]]
           at == {n \in 1 .. Len(l.instructions) : ~(l.instructions[n] < pos)}
       IN IF l.end_id <= pos \/ at = {}
          THEN GetGapSearch(g, k + 1, pos)
          ELSE [block |-> g.blocks_[k],
                item |-> CHOOSE n \in at : \A m \in at : n <= m]

\* LGen::GetGap.  The gap is instruction `pos` of the result.  An
\* instruction that is not a Gap and has the id `pos` is returned through
\* LGap::Cast: recorded as err "GetGap: cast".
GetGap(g, pos) ==
  LET Insert(g1, tmp, block, item) ==
        [Spill(AddRange(g1, tmp, pos - 1, pos + 1), tmp) EXCEPT
           !.linstr = (pos :> [NewInstruction("Gap", block, FALSE) EXCEPT !.tmp = tmp])
                      @@ @,
           !.lblocks[block].instructions = InsertAt(@, item, pos)]
      Found(f) ==
        IF f.item # 0 /\ g.lblocks[f.block].instructions[f.item] = pos
        THEN IF g.linstr[pos].type = "Gap" THEN g ELSE Fail(g, "GetGap: cast")
        ELSE IF f.item = 0 \/ f.item = 1
        THEN Fail(g, "GetGap: assert")
        ELSE Insert(CreateVirtual(g), Len(g.intervals_) + 1, f.block, f.item)
  IN IF g.err # "" THEN g ELSE Found(GetGapSearch(g, 1, pos))

\* LGap::Add
GapAdd(g, gap, from, to) ==
  IF g.err # "" THEN g
  ELSE [g EXCEPT !.linstr[gap].moves = Append(@, <<from, to>>)]

StartKeys(g, list) ==
  [k \in 1 .. Len(list) |-> IntervalStart(g.intervals_[list[k]])]

\* LGen::Split.  The child is interval Len(g.intervals_) + 1, the interval
\* the call creates first.  `splits` is the history of the calls: the
\* generator each call started from, the interval and the position.  Each step is an operator of the state it works
\* on: Moved (uses and ranges go from i to the child), Queued (the child is
\* inserted into unhandled_), Bridged (the move in the gap at pos).
Split(g, i, pos) ==
  LET iv == g.intervals_[i]
      child == Len(g.intervals_) + 1
      parent == IF iv.split_parent = 0 THEN i ELSE iv.split_parent
      \* Move uses from parent to child
      ustay == {k \in 1 .. Len(iv.uses) : UseId(g, iv.uses[k]) < pos}
      ukeep == IF ustay = {} THEN 0 ELSE CHOOSE k \in ustay : \A m \in ustay : m <= k
      umoved == SubSeq(iv.uses, ukeep + 1, Len(iv.uses))
      \* Move ranges from parent to child
      rstay == {k \in 1 .. Len(iv.ranges) : iv.ranges[k][2] <= pos}
      rkeep == IF rstay = {} THEN 0 ELSE CHOOSE k \in rstay : \A m \in rstay : m <= k
      rmoved == SubSeq(iv.ranges, rkeep + 1, Len(iv.ranges))
      iranges == SubSeq(iv.ranges, 1, rkeep) \o
                 [k \in {n \in 1 .. Len(rmoved) : rmoved[n][1] < pos}
                    |-> <<rmoved[k][1], pos>>]
      cranges == [k \in 1 .. Len(rmoved) |->
                    IF rmoved[k][1] < pos THEN <<pos, rmoved[k][2]>> ELSE rmoved[k]]
      Moved(g1) ==
        [g1 EXCEPT
           !.luse = [u \in 1 .. Len(@) |->
                       IF u \in SeqSet(umoved)
                       THEN [@[u] EXCEPT !.interval = child] ELSE @[u]],
           !.intervals_[i].uses = SubSeq(iv.uses, 1, ukeep),
           !.intervals_[i].ranges = iranges,
           !.intervals_[child].uses = umoved,
           !.intervals_[child].ranges = cranges,
           !.intervals_[child].split_parent = parent,
           !.intervals_[parent].split_children = Unshift(@, child)]
      Queued(g3) ==
        [g3 EXCEPT !.unhandled_ =
           InsertAt(@, InsertSortedPos(StartKeys(g3, @), cranges[1][1]), child)]
      Moves(g6, from) == GapAdd(g6, pos, from, Len(g6.luse))
      Uses(g5) ==
        IF g5.err # "" THEN g5
        ELSE Moves(Use(Use(g5, i, "any", pos), child, "any", pos), Len(g5.luse) + 1)
      Bridged(g4) ==
        IF ~(/\ Len(iranges) > 0
             /\ IntervalEnd(g4.intervals_[i]) <= pos
             /\ IntervalStart(g4.intervals_[child]) >= pos)
        THEN Fail(g4, "Split: post")
        ELSE IF IsBlockStart(g4, IntervalEnd(g4.intervals_[i])) THEN g4
        ELSE Uses(GetGap(g4, pos))
      Checked(g0) ==
        IF iv.fixed THEN Fail(g0, "Split: fixed")
        ELSE IF ~(pos > IntervalStart(iv) /\ pos < IntervalEnd(iv))
        THEN Fail(g0, "Split: pos")
        ELSE Bridged(Queued(Moved(CreateVirtual(g0))))
  IN IF g.err # "" THEN g
     ELSE Checked([g EXCEPT !.splits = Append(@, [g |-> [g EXCEPT !.splits = <<>>],
                                                  i |-> i, pos |-> pos])])

\* LGen::ShuffleIntervals on the lists `active`, `inactive`, `handled`.
ShuffleIntervals(g, active, inactive, handled, pos) ==
  LET Ended(i) == IntervalEnd(g.intervals_[i]) < pos
      Cov(i) == Covers(g.intervals_[i], pos)
      StayActive(i) == ~Ended(i) /\ Cov(i)
      ToInactive(i) == ~Ended(i) /\ ~Cov(i)
      ToActive(i) == ~Ended(i) /\ Cov(i)
      inactive1 == inactive \o SelectSeq(active, ToInactive)
  IN [active |-> SelectSeq(active, StayActive) \o SelectSeq(inactive1, ToActive),
      inactive |-> SelectSeq(inactive1, ToInactive),
      handled |-> handled \o SelectSeq(active, Ended) \o SelectSeq(inactive1, Ended)]

\* The first register index with the largest value, as the loops
\*   for (i...) if (pos[i] > max) { max = pos[i]; max_reg = i; }  do.
MaxReg(pos) ==
  CHOOSE r \in Regs : /\ \A q \in Regs : pos[q] <= pos[r]
                      /\ \A q \in Regs : q < r => pos[q] < pos[r]

\* free_pos after the loops over active_ and inactive_ of TryAllocateFreeReg
RECURSIVE FreePosInactive(_, _, _, _)
FreePosInactive(g, current, k, free_pos) ==
  IF k > Len(g.inactive_) THEN free_pos
  ELSE LET inactive == g.intervals_[g.inactive_[k]]
           pos == FindIntersection(g.intervals_[current], inactive)
       IN FreePosInactive(g, current, k + 1,
            IF pos = -1 \/ free_pos[inactive.index] <= pos THEN free_pos
            ELSE [free_pos EXCEPT ![inactive.index] = pos])

\* free_pos from the active intervals alone
FreePosActive(g, current) ==
  [r \in Regs |->
     IF \E k \in 1 .. Len(g.active_) : g.intervals_[g.active_[k]].index = r
     THEN 0 ELSE INT_MAX]

FreePos(g, current) ==
  FreePosInactive(g, current, 1,
    [r \in Regs |->
       IF \E k \in 1 .. Len(g.active_) : g.intervals_[g.active_[k]].index = r
       THEN 0 ELSE INT_MAX])

\* LGen::TryAllocateFreeReg (below), and an allocator for which no register is
\* ever free
NoFreeReg(g, current) == g

TryAllocateFreeReg(g, current) ==
  LET cur == g.intervals_[current]
      Pick(free_pos) ==
        IF cur.register_hint # -1 /\ free_pos[cur.register_hint] - 2 > IntervalStart(cur)
        THEN cur.register_hint ELSE MaxReg(free_pos)
      Give(g1, max_reg) ==
        IF g1.err # "" THEN g1 ELSE Allocate(g1, current, max_reg)
      Take(max, max_reg) ==
        IF max - 2 <= IntervalStart(cur) THEN g
        ELSE IF max <= IntervalEnd(cur)
        THEN Give(Split(g, current, IF max % 2 = 0 THEN max - 1 ELSE max - 2), max_reg)
        ELSE Give(g, max_reg)
      Best(free_pos, max_reg) == Take(free_pos[max_reg], max_reg)
      Choose(free_pos) == Best(free_pos, Pick(free_pos))
  IN IF \E k \in SeqSet(g.active_ \o g.inactive_) : ~is_register(g.intervals_[k])
     THEN Fail(g, "TryAllocateFreeReg: is_register")
     ELSE Choose(FreePos(g, current))

\* use_pos and block_pos after the loop over active_ of AllocateBlockedReg
RECURSIVE BlockedActive(_, _, _, _)
BlockedActive(g, current, k, p) ==
  IF k > Len(g.active_) THEN p
  ELSE LET active == g.intervals_[g.active_[k]]
           index == active.index
           use == UseAfter(g, g.active_[k], IntervalStart(g.intervals_[current]), "any")
       IN BlockedActive(g, current, k + 1,
            IF active.fixed
            THEN [use_pos |-> [p.use_pos EXCEPT ![index] = 0],
                  block_pos |-> [p.block_pos EXCEPT ![index] = 0]]
            ELSE IF use = 0 THEN p
            ELSE [p EXCEPT !.use_pos[index] = Min2(@, UseId(g, use))])

\* ... and after the loop over inactive_
RECURSIVE BlockedInactive(_, _, _, _)
BlockedInactive(g, current, k, p) ==
  IF k > Len(g.inactive_) THEN p
  ELSE LET inactive == g.intervals_[g.inactive_[k]]
           index == inactive.index
           pos == FindIntersection(g.intervals_[current], inactive)
           use == UseAfter(g, g.inactive_[k], IntervalStart(g.intervals_[current]), "any")
       IN BlockedInactive(g, current, k + 1,
            IF pos = -1 THEN p
            ELSE IF inactive.fixed
            THEN [use_pos |-> [p.use_pos EXCEPT ![index] = Min2(@, pos)],
                  block_pos |-> [p.block_pos EXCEPT ![index] = Min2(@, pos)]]
            ELSE IF use = 0 THEN p
            ELSE [p EXCEPT !.use_pos[index] = Min2(@, UseId(g, use))])

\* An active interval that holds current's register is split at its own end,
\* not in front of the start of current
StealActiveAtEnd(g, current, k, split_pos) ==
  LET holders == {n \in 1 .. Len(g.active_) :
                    IsEqual(g.intervals_[g.active_[n]], g.intervals_[current])}
      Holder(n) == Split(g, g.active_[n], IntervalEnd(g.intervals_[g.active_[n]]))
  IN IF g.err # "" \/ holders = {} THEN g ELSE Holder(CHOOSE n \in holders : TRUE)

\* The loop "Active intervals" of AllocateBlockedReg: every active interval
\* that holds current's register is split at split_pos.
RECURSIVE StealActive(_, _, _, _)
StealActive(g, current, k, split_pos) ==
  IF g.err # "" \/ k > Len(g.active_) THEN g
  ELSE StealActive(
         IF IsEqual(g.intervals_[g.active_[k]], g.intervals_[current])
         THEN Split(g, g.active_[k], split_pos) ELSE g,
         current, k + 1, split_pos)

\* The loop "Inactive intervals" of AllocateBlockedReg
RECURSIVE StealInactive(_, _, _, _)
StealInactive(g, current, k, split_pos) ==
  IF g.err # "" \/ k > Len(g.inactive_) THEN g
  ELSE LET i == g.inactive_[k]
           interval == g.intervals_[i]
           cur == g.intervals_[current]
           At(intersection, next_use) ==
             IF next_use = 0 THEN split_pos
             ELSE IF intersection >= UseId(g, next_use) THEN intersection
             ELSE UseId(g, next_use) - 1
           Drop(g1) == [g1 EXCEPT !.inactive_ = RemoveAt(@, k)]
       IN IF interval.fixed \/ ~IsEqual(interval, cur)
             \/ FindIntersection(cur, interval) = -1
          THEN StealInactive(g, current, k + 1, split_pos)
          ELSE StealInactive(
                 Drop(Split(g, i, At(FindIntersection(cur, interval),
                                     UseAfter(g, i, IntervalStart(cur), "register")))),
                 current, k, split_pos)

\* LGen::AllocateBlockedReg (below), and current spilled whole whatever its
\* uses
SpillWhole(g, current) == Spill(g, current)

\* ... and nothing done for an interval that found no free register
NoBlockedReg(g, current) == g

AllocateBlockedReg(g, current) ==
  LET cur == g.intervals_[current]
      start == IntervalStart(cur)
      SpillCurrent(g1, first_id) ==
        IF first_id - 1 > start THEN Split(g1, current, first_id - 1) ELSE g1
      Steal(g2) ==
        StealInactive(
          StealActive(g2, current, 1, IF start % 2 = 0 THEN start - 1 ELSE start),
          current, 1, IF start % 2 = 0 THEN start - 1 ELSE start)
      SplitCurrent(g1, block_pos) ==
        IF block_pos <= IntervalEnd(cur) THEN Split(g1, current, block_pos - 1) ELSE g1
      Decide(p, use_reg, first_id) ==
        IF p.use_pos[use_reg] < first_id \/ p.block_pos[use_reg] <= start
        THEN SpillCurrent(Spill(g, current), first_id)
        ELSE Steal(SplitCurrent(Allocate(g, current, use_reg), p.block_pos[use_reg]))
      Blocked(p, first_id) == Decide(p, MaxReg(p.use_pos), first_id)
      First(first_use) ==
        IF first_use = 0 THEN Spill(g, current)
        ELSE Blocked(BlockedInactive(g, current, 1,
                       BlockedActive(g, current, 1,
                         [use_pos |-> [r \in Regs |-> INT_MAX],
                          block_pos |-> [r \in Regs |-> INT_MAX]])),
                     UseId(g, first_use))
  IN First(UseAfter(g, current, 0, "register"))

\* One iteration of the allocation loop of LGen::WalkIntervals
WalkIteration(g) ==
  LET current == Head(g.unhandled_)
      Shuffled(sh) ==
        [g EXCEPT !.unhandled_ = Tail(@),
                  !.active_ = sh.active,
                  !.inactive_ = sh.inactive]
      Done(g3) ==
        IF g3.err # "" THEN g3
        ELSE IF ~(is_register(g3.intervals_[current])
                  \/ is_stackslot(g3.intervals_[current]))
        THEN Fail(g3, "WalkIntervals: assert")
        ELSE IF is_register(g3.intervals_[current])
        THEN [g3 EXCEPT !.active_ = Append(@, current)]
        ELSE g3
      Blocked(g2) ==
        IF g2.err # "" \/ is_register(g2.intervals_[current]) THEN g2
        ELSE AllocateBlockedReg(g2, current)
      Allocation(g1) ==
        IF ~is_virtual(g1.intervals_[current]) THEN g1
        ELSE Done(Blocked(TryAllocateFreeReg(g1, current)))
  IN Allocation(Shuffled(ShuffleIntervals(g, g.active_, g.inactive_, <<>>,
                                          IntervalStart(g.intervals_[current]))))

\* ---------------------------------------------------------------------------
\* Control-flow graphs handed to the allocator.  Each is what HIRGen builds for
\* one statement form: straight-line code, VisitIf with an else branch, and
\* VisitWhile (pre-loop block 0, loop header 1, condition 2, body 3, back-edge
\* block 4, end 5, break block 6).
Shapes == {"line", "if", "while"}

HIRBlocks(shape) ==
  IF shape = "line"
  THEN [b \in {0} |-> [pred |-> <<>>, succ |-> <<>>, loop |-> FALSE]]
  ELSE IF shape = "if"
  THEN (0 :> [pred |-> <<>>, succ |-> <<1, 2>>, loop |-> FALSE]) @@
       (1 :> [pred |-> <<0>>, succ |-> <<3>>, loop |-> FALSE]) @@
       (2 :> [pred |-> <<0>>, succ |-> <<3>>, loop |-> FALSE]) @@
       (3 :> [pred |-> <<1, 2>>, succ |-> <<>>, loop |-> FALSE])
  ELSE (0 :> [pred |-> <<>>, succ |-> <<1>>, loop |-> FALSE]) @@
       (1 :> [pred |-> <<0, 4>>, succ |-> <<2>>, loop |-> TRUE]) @@
       (2 :> [pred |-> <<1>>, succ |-> <<3, 5>>, loop |-> FALSE]) @@
       (3 :> [pred |-> <<2>>, succ |-> <<4>>, loop |-> FALSE]) @@
       (4 :> [pred |-> <<3>>, succ |-> <<1>>, loop |-> FALSE]) @@
       (5 :> [pred |-> <<2>>, succ |-> <<6>>, loop |-> FALSE]) @@
       (6 :> [pred |-> <<5>>, succ |-> <<>>, loop |-> FALSE])

\* The block that holds the phi of a shape (-1 when the shape has no join)
PhiBlock(shape) == IF shape = "if" THEN 3 ELSE IF shape = "while" THEN 1 ELSE -1

\* The blocks HIRGen puts instructions of the source program in: all blocks of
\* VisitIf; of VisitWhile the pre-loop block, the condition, the body and the
\* block after the loop (the others hold phis and gotos only).
CodeBlocks(shape) == IF shape = "while" THEN {0, 2, 3, 6} ELSE {0, 1, 2, 3}

\* The dominating block whose values a block starts with
ValuesFrom(shape, b) ==
  IF shape = "if" THEN IF b = 0 THEN -1 ELSE 0
  ELSE IF shape = "while" THEN (IF b = 6 THEN 5 ELSE IF b = 5 THEN 2 ELSE b - 1)
  ELSE -1

\* LGen::FlattenBlocks: the work queue loop
RECURSIVE FlattenQueue(_, _, _, _)
FlattenQueue(hir, work_queue, visits, blocks) ==
  IF work_queue = <<>> THEN blocks
  ELSE LET b == Head(work_queue)
           v == [visits EXCEPT ![b] = @ + 1]
           skip == IF Len(hir[b].pred) = 0 THEN FALSE
                   ELSE IF hir[b].loop THEN v[b] # 1
                   ELSE v[b] # Len(hir[b].pred)
       IN IF skip THEN FlattenQueue(hir, Tail(work_queue), v, blocks)
          ELSE FlattenQueue(hir, hir[b].succ \o Tail(work_queue), v, Append(blocks, b))

FlattenBlocks(hir, root) ==
  FlattenQueue(hir, <<root>>, [b \in DOMAIN hir |-> 0], <<>>)

NewLBlock ==
  [instructions |-> <<>>, start_id |-> -1, end_id |-> -1,
   live_gen |-> {}, live_kill |-> {}, live_in |-> {}, live_out |-> {}]

\* The register file of the allocator: interval r + 1 is the fixed interval of
\* register r.
rax == 0
rbx == 1
registers_(r) == r + 1
IsFixed(iv) == iv.fixed

\* LGen::LGen up to the call of FlattenBlocks
NewLGen(hir) ==
  [intervals_ |-> [r \in 1 .. kLIRRegisterCount |->
                     [NewInterval("register", r - 1) EXCEPT !.fixed = TRUE]],
   luse |-> <<>>,
   linstr |-> [k \in {} |-> NewInstruction("", 0, FALSE)],
   lblocks |-> [b \in DOMAIN hir |-> NewLBlock],
   blocks_ |-> <<>>,
   unhandled_ |-> <<>>, active_ |-> <<>>, inactive_ |-> <<>>,
   unhandled_spills_ |-> <<>>, active_spills_ |-> <<>>,
   inactive_spills_ |-> <<>>, free_spills_ |-> <<>>,
   spill_index_ |-> 0, instr_id_ |-> 0, current_block_ |-> 0,
   splits |-> <<>>, err |-> ""]

\* LGen::Add / LGen::Bind: the instruction gets the next even id and is
\* appended to the current block.  The new id is instr_id_ - 2 of the result.
Add(g, type, hascall) ==
  [g EXCEPT !.linstr = (g.instr_id_ :> NewInstruction(type, g.current_block_, hascall)) @@ @,
            !.lblocks[g.current_block_].instructions = Append(@, g.instr_id_),
            !.instr_id_ = @ + 2]

LastInstr(g) == g.instr_id_ - 2

\* LInstruction::AddArg, AddScratch, SetResult on instruction `id`
AddArg(g, id, i, type) ==
  LET g1 == Use(g, i, type, id)
  IN [g1 EXCEPT !.linstr[id].inputs = Append(@, LastUse(g1))]

AddScratch(g, id, i) ==
  LET g1 == Use(g, i, "register", id)
  IN [g1 EXCEPT !.linstr[id].scratches = Append(@, LastUse(g1))]

SetResult(g, id, i, type) ==
  LET g1 == Use(g, i, type, id)
  IN [g1 EXCEPT !.linstr[id].result = LastUse(g1)]

\* LGen::ToFixed: a move of the value `i` into the fixed interval of `reg`
ToFixed(g, i, reg) ==
  LET res == registers_(reg)
      g1 == Add(g, "Move", FALSE)
      move == LastInstr(g1)
      g2 == AddArg(SetResult(g1, move, res, "register"), move, i, "any")
  IN [g2 EXCEPT !.intervals_[i].register_hint = reg]

\* LGen::ResultFromFixed: the result of `instr` is the fixed interval of `reg`,
\* moved into a new virtual interval (the last interval of the result).
ResultFromFixed(g, instr, reg) ==
  LET ireg == registers_(reg)
      g1 == CreateVirtual(g)
      res == LastInterval(g1)
      g2 == Add(g1, "Move", FALSE)
      move == LastInstr(g2)
      g3 == AddArg(SetResult(g2, move, res, "any"), move, ireg, "register")
      g4 == [g3 EXCEPT !.intervals_[res].register_hint = reg]
  IN SetResult(g4, instr, ireg, "register")

\* Lowering of the HIR instructions.  Each returns the LGen after the visit;
\* the value of the instruction is the interval Value(g) of the result.
VisitEntry(g) == Add(g, "Entry", FALSE)

VisitLiteral(g) ==
  LET g1 == CreateConst(Add(g, "Literal", FALSE))
  IN SetResult(g1, LastInstr(g1), LastInterval(g1), "any")

VisitLoadContext(g) ==
  LET g1 == CreateVirtual(Add(g, "LoadContext", FALSE))
  IN SetResult(g1, LastInstr(g1), LastInterval(g1), "register")

VisitStoreContext(g, x) ==
  LET g1 == CreateVirtual(Add(g, "StoreContext", FALSE))
      op == LastInstr(g1)
  IN AddArg(AddScratch(g1, op, LastInterval(g1)), op, x, "register")

VisitAllocateObject(g) ==
  LET g1 == Add(g, "AllocateObject", TRUE)
  IN ResultFromFixed(g1, LastInstr(g1), rax)

VisitLoadArg(g, index) ==
  LET g1 == CreateVirtual(Add(g, "LoadArg", FALSE))
      op == LastInstr(g1)
  IN SetResult(AddArg(g1, op, index, "register"), op, LastInterval(g1), "any")

VisitStoreArg(g, x) ==
  LET g1 == Add(g, "StoreArg", FALSE)
  IN AddArg(g1, LastInstr(g1), x, "register")

RECURSIVE StoreArgs(_, _, _)
StoreArgs(g, args, k) ==
  IF k = 0 \/ g.err # "" THEN g ELSE StoreArgs(VisitStoreArg(g, args[k]), args, k - 1)

\* The instructions HIRGen::VisitCall adds for the call fn(args): the literal
\* argc, the stores of the arguments from the last to the first, the call.
VisitCall(g, fn, args) ==
  LET g1 == VisitLiteral(g)
      argc == LastInterval(g1)
      g2 == ToFixed(ToFixed(StoreArgs(g1, args, Len(args)), fn, rax), argc, rbx)
      g3 == Add(g2, "Call", TRUE)
      op == LastInstr(g3)
      g4 == AddArg(AddArg(g3, op, registers_(rax), "register"),
                   op, registers_(rbx), "register")
  IN ResultFromFixed(g4, op, rax)

VisitBinOp(g, x, y) ==
  LET g1 == Add(ToFixed(ToFixed(g, x, rax), y, rbx), "BinOp", TRUE)
      op == LastInstr(g1)
      g2 == AddArg(AddArg(g1, op, registers_(rax), "register"),
                   op, registers_(rbx), "register")
  IN ResultFromFixed(g2, op, rax)

VisitIf(g, x) ==
  LET g1 == Add(ToFixed(g, x, rax), "Branch", TRUE)
  IN AddArg(g1, LastInstr(g1), registers_(rax), "register")

VisitReturn(g, x) ==
  LET g1 == Add(ToFixed(g, x, rax), "Return", FALSE)
  IN AddArg(g1, LastInstr(g1), registers_(rax), "register")

\* The LPhi that VisitGoto creates for a phi met for the first time.  It has
\* no id yet (id -1): it is kept under the key -1 until VisitPhi binds it.
UnboundPhi == -1

NewLPhi(g) ==
  LET g1 == CreateVirtual(g)
      iphi == LastInterval(g1)
      g2 == [g1 EXCEPT !.linstr = (UnboundPhi :> NewInstruction("Phi", -1, FALSE)) @@ @]
  IN SetResult(AddArg(g2, UnboundPhi, iphi, "any"), UnboundPhi, iphi, "any")

\* LGen::VisitGoto of a block whose successor holds the phi `iphi` (0: the
\* successor has no live phi, -1: the phi has no LIR representation yet);
\* `input` is the interval of phi->InputAt(parent_index).
VisitGoto(g, iphi, input) ==
  IF iphi = 0 THEN Add(g, "Goto", FALSE)
  ELSE LET g1 == IF iphi = -1 THEN NewLPhi(g) ELSE g
           res == IF iphi = -1 THEN LastInterval(g1) ELSE iphi
           g2 == Add(g1, "Move", FALSE)
           move == LastInstr(g2)
       IN Add(AddArg(SetResult(g2, move, res, "any"), move, input, "any"),
              "Goto", FALSE)

\* LGen::VisitPhi: binds the LPhi, which gets its id here.
VisitPhi(g) ==
  LET id == g.instr_id_
      lphi == [g.linstr[UnboundPhi] EXCEPT !.block = g.current_block_]
  IN IF ~(UnboundPhi \in DOMAIN g.linstr) \/ Len(lphi.inputs) # 1 \/ lphi.result = 0
     THEN Fail(g, "VisitPhi")
     ELSE [g EXCEPT
             !.linstr = (id :> lphi) @@
                        [k \in (DOMAIN g.linstr) \ {UnboundPhi} |-> g.linstr[k]],
             !.luse = [u \in 1 .. Len(@) |->
                         IF @[u].instr = UnboundPhi THEN [@[u] EXCEPT !.instr = id]
                         ELSE @[u]],
             !.lblocks[g.current_block_].instructions = Append(@, id),
             !.instr_id_ = @ + 2]

\* The interval ids of a sequence of uses
UseIntervals(g, uses) == {g.luse[uses[k]].interval : k \in 1 .. Len(uses)}

\* LGen::ComputeLocalLiveSets for one block: instructions n.. of the list.
\* The live maps are keyed by interval id; the model keeps their key sets.
RECURSIVE LocalLiveFrom(_, _, _, _)
LocalLiveFrom(g, instrs, n, l) ==
  IF n > Len(instrs) THEN l
  ELSE LET instr == g.linstr[instrs[n]]
           gen == l.live_gen \cup (UseIntervals(g, instr.inputs) \ l.live_kill)
           kill == l.live_kill \cup UseIntervals(g, instr.scratches) \cup
                   (IF instr.result # 0 THEN {g.luse[instr.result].interval} ELSE {})
       IN LocalLiveFrom(g, instrs, n + 1, [l EXCEPT !.live_gen = gen, !.live_kill = kill])

ComputeLocalLiveSets(g) ==
  [g EXCEPT !.lblocks = [b \in DOMAIN @ |->
                           LocalLiveFrom(g, @[b].instructions, 1, @[b])]]

\* One sweep of the do-while loop of LGen::ComputeGlobalLiveSets over the
\* blocks k, k-1, .. 1 of blocks_
RECURSIVE GlobalLiveSweep(_, _, _)
GlobalLiveSweep(hir, g, k) ==
  IF k = 0 THEN g
  ELSE LET b == g.blocks_[k]
           l == g.lblocks[b]
           out == l.live_out \cup
                  UNION {g.lblocks[hir[b].succ[i]].live_in : i \in 1 .. Len(hir[b].succ)}
           in == l.live_in \cup l.live_gen \cup (out \ l.live_kill)
       IN GlobalLiveSweep(hir,
            [g EXCEPT !.lblocks[b].live_out = out, !.lblocks[b].live_in = in], k - 1)

RECURSIVE ComputeGlobalLiveSets(_, _)
ComputeGlobalLiveSets(hir, g) ==
  LET g1 == GlobalLiveSweep(hir, g, Len(g.blocks_))
  IN IF g1 = g THEN g ELSE ComputeGlobalLiveSets(hir, g1)

\* AddRange for every interval of a set (the ranges of distinct intervals do
\* not depend on the order of the calls)
RECURSIVE AddRangeAll(_, _, _, _)
AddRangeAll(g, is, start, end) ==
  IF is = {} \/ g.err # "" THEN g
  ELSE LET i == CHOOSE x \in is : TRUE
       IN AddRangeAll(AddRange(g, i, start, end), is \ {i}, start, end)

\* No range for the registers at a call
CallRangesSkipped(g, id, r) == g

\* The loop over the registers at an instruction that has a call
RECURSIVE CallRanges(_, _, _)
CallRanges(g, id, r) ==
  IF r = kLIRRegisterCount \/ g.err # "" THEN g
  ELSE CallRanges(
         IF Covers(g.intervals_[registers_(r)], id) THEN g
         ELSE Use(AddRange(g, registers_(r), id, id + 1), registers_(r), "register", id),
         id, r + 1)

RECURSIVE ScratchRanges(_, _, _, _)
ScratchRanges(g, id, scratches, k) ==
  IF k > Len(scratches) \/ g.err # "" THEN g
  ELSE ScratchRanges(AddRange(g, g.luse[scratches[k]].interval, id - 1, id),
                     id, scratches, k + 1)

RECURSIVE InputRanges(_, _, _, _, _)
InputRanges(g, id, start_id, inputs, k) ==
  IF k > Len(inputs) \/ g.err # "" THEN g
  ELSE LET i == g.luse[inputs[k]].interval
       IN InputRanges(
            IF Covers(g.intervals_[i], id - 1) THEN g ELSE AddRange(g, i, start_id, id),
            id, start_id, inputs, k + 1)

\* The body of the loop over the instructions of a block in BuildIntervals
BuildInstruction(g, b, id) ==
  LET instr == g.linstr[id]
      l == g.lblocks[b]
      g1 == IF instr.hascall THEN CallRanges(g, id, 0) ELSE g
      res == g.luse[instr.result].interval
      g2 == IF instr.result = 0 THEN g1
            ELSE IF Len(g1.intervals_[res].ranges) = 0 THEN AddRange(g1, res, id, id + 1)
            ELSE IF res \notin l.live_in
            THEN [g1 EXCEPT !.intervals_[res].ranges[1][1] = id]
            ELSE g1
      g3 == ScratchRanges(g2, id, instr.scratches, 1)
  IN InputRanges(g3, id, l.start_id, instr.inputs, 1)

RECURSIVE BuildInstructions(_, _, _)
BuildInstructions(g, b, n) ==
  IF n = 0 \/ g.err # "" THEN g
  ELSE BuildInstructions(BuildInstruction(g, b, g.lblocks[b].instructions[n]), b, n - 1)

\* LGen::BuildIntervals over the blocks k, k-1, .. 1 of blocks_
RECURSIVE BuildIntervalsFrom(_, _)
BuildIntervalsFrom(g, k) ==
  IF k = 0 \/ g.err # "" THEN g
  ELSE LET b == g.blocks_[k]
           instrs == g.lblocks[b].instructions
           g1 == [g EXCEPT !.lblocks[b].start_id = instrs[1],
                           !.lblocks[b].end_id = instrs[Len(instrs)]]
           l == g1.lblocks[b]
           g2 == AddRangeAll(g1, l.live_out, l.start_id, l.end_id + 2)
       IN BuildIntervalsFrom(BuildInstructions(g2, b, Len(instrs)), k - 1)

BuildIntervals(g) == BuildIntervalsFrom(g, Len(g.blocks_))

\* Stable sort of a list of intervals by start position (ZoneList::Sort with
\* LInterval::Compare)
SortIntervals(g, list) ==
  LET sorted == SortPairs([k \in 1 .. Len(list) |->
                             <<IntervalStart(g.intervals_[list[k]]), list[k]>>])
  IN [k \in 1 .. Len(sorted) |-> sorted[k][2]]

\* The rematerialization of one use of a const interval in WalkIntervals
\* The move into the new interval is left without a register constraint
RematerializeAny(g, interval, use) ==
  LET id == UseId(g, use)
      reg == Len(g.intervals_) + 1
      Replace(g5) == AddRange([g5 EXCEPT !.luse[use].interval = reg], reg, id - 1, id)
      Moves(g4, from) == Replace(GapAdd(g4, id - 1, from, Len(g4.luse)))
      Uses(g2) ==
        IF g2.err # "" THEN g2
        ELSE Moves(Use(Use(g2, interval, "any", id - 1), reg, "any", id - 1),
                   Len(g2.luse) + 1)
  IN Uses(GetGap(CreateVirtual(g), id - 1))

Rematerialize(g, interval, use) ==
  LET id == UseId(g, use)
      reg == Len(g.intervals_) + 1
      Replace(g5) == AddRange([g5 EXCEPT !.luse[use].interval = reg], reg, id - 1, id)
      Moves(g4, from) == Replace(GapAdd(g4, id - 1, from, Len(g4.luse)))
      Uses(g2) ==
        IF g2.err # "" THEN g2
        ELSE Moves(Use(Use(g2, interval, "any", id - 1), reg, "register", id - 1),
                   Len(g2.luse) + 1)
  IN Uses(GetGap(CreateVirtual(g), id - 1))

\* The loop over the uses of a const interval, from use j down
RECURSIVE RematerializeFrom(_, _, _)
RematerializeFrom(g, interval, j) ==
  LET use == g.intervals_[interval].uses[j]
      Next(g1) ==
        IF g1.err # "" THEN g1
        ELSE IF g1.intervals_[interval].uses[j] # use
        THEN RematerializeFrom(g1, interval, j)
        ELSE RematerializeFrom(g1, interval, j - 1)
      Visit(instr) ==
        IF instr.result = use \/ instr.type = "Gap"
        THEN RematerializeFrom(g, interval, j - 1)
        ELSE Next(Rematerialize(g, interval, use))
  IN IF j = 0 \/ g.err # "" THEN g ELSE Visit(g.linstr[UseId(g, use)])

\* The first loop of LGen::WalkIntervals, from interval i on
RECURSIVE PopulateFrom(_, _)
PopulateFrom(g, i) ==
  IF i > Len(g.intervals_) \/ g.err # "" THEN g
  ELSE LET interval == g.intervals_[i]
       IN PopulateFrom(
            IF Len(interval.ranges) = 0 THEN g
            ELSE IF IsFixed(interval) THEN [g EXCEPT !.inactive_ = Append(@, i)]
            ELSE IF is_const(interval) THEN RematerializeFrom(g, i, Len(interval.uses))
            ELSE IF is_stackslot(interval) THEN g
            ELSE IF ~is_virtual(interval) THEN Fail(g, "WalkIntervals: is_virtual")
            ELSE [g EXCEPT !.unhandled_ = Append(@, i)],
            i + 1)

\* LGen::WalkIntervals up to its allocation loop
WalkPopulate(g) ==
  LET g1 == PopulateFrom(g, 1)
  IN IF g1.err # "" THEN g1
     ELSE [g1 EXCEPT !.unhandled_ = SortIntervals(g1, @),
                     !.inactive_ = SortIntervals(g1, @)]

\* LInterval::ChildAt (below; 0 stands for the UNEXPECTED abort), and a lookup
\* that answers the parent whatever the position
ChildAtParent(g, i, pos) == i

ChildAt(g, i, pos) ==
  LET root == IF g.intervals_[i].split_parent # 0 THEN g.intervals_[i].split_parent ELSE i
      children == g.intervals_[root].split_children
      covering == {k \in 1 .. Len(children) : Covers(g.intervals_[children[k]], pos)}
  IN IF Covers(g.intervals_[root], pos) THEN root
     ELSE IF covering = {} THEN 0
     ELSE children[CHOOSE k \in covering : \A m \in covering : k <= m]

\* The gap position ResolveDataFlow uses for the edge b -> succ
\* The gap of the edge taken on the label of succ or on the control
\* instruction of b
EdgeGapOnInstruction(hir, g, b, succ) ==
  IF Len(hir[b].succ) = 2 THEN g.lblocks[succ].start_id
  ELSE g.lblocks[b].end_id

EdgeGap(hir, g, b, succ) ==
  IF Len(hir[b].succ) = 2 THEN g.lblocks[succ].start_id + 1
  ELSE g.lblocks[b].end_id - 1

\* The moves of one edge: the loop over succ->live_in, in key order.
\* `havegap` is gap != NULL.
RECURSIVE ResolveEdge(_, _, _, _, _, _)
ResolveEdge(hir, g, b, succ, keys, havegap) ==
  IF keys = {} \/ g.err # "" THEN g
  ELSE LET key == CHOOSE x \in keys : \A y \in keys : x <= y
           rest == keys \ {key}
           left == ChildAt(g, key, g.lblocks[b].end_id)
           right == ChildAt(g, key, g.lblocks[succ].start_id)
           pos == EdgeGap(hir, g, b, succ)
       IN IF Len(g.intervals_[key].split_children) = 0
          THEN ResolveEdge(hir, g, b, succ, rest, havegap)
          ELSE IF left = 0 \/ right = 0
          THEN Fail(g, "ChildAt: UNEXPECTED")
          ELSE IF left = right THEN ResolveEdge(hir, g, b, succ, rest, havegap)
          ELSE LET g1 == IF havegap THEN g ELSE GetGap(g, pos)
                   g2 == Use(g1, left, "any", pos)
                   from == LastUse(g2)
                   g3 == Use(g2, right, "any", pos)
               IN IF g1.err # "" THEN g1
                  ELSE ResolveEdge(hir, GapAdd(g3, pos, from, LastUse(g3)),
                                   b, succ, rest, TRUE)

\* The handling of the control instruction of b for its successor succ
ResolveControl(g, k, succ) ==
  LET b == g.blocks_[k]
      instrs == g.lblocks[b].instructions
      control == g.linstr[instrs[Len(instrs)]]
  IN IF control.type \notin {"Goto", "Branch"} THEN Fail(g, "ResolveDataFlow: control")
     ELSE IF control.type = "Goto" /\ k < Len(g.blocks_) /\ g.blocks_[k + 1] = succ
     THEN [g EXCEPT !.lblocks[b].instructions = SubSeq(instrs, 1, Len(instrs) - 1)]
     ELSE g

\* LGen::ResolveDataFlow from block k of blocks_, successor i, on
RECURSIVE ResolveFrom(_, _, _, _)
ResolveFrom(hir, g, k, i) ==
  IF k > Len(g.blocks_) \/ g.err # "" THEN g
  ELSE LET b == g.blocks_[k]
       IN IF i > Len(hir[b].succ) THEN ResolveFrom(hir, g, k + 1, 1)
          ELSE LET succ == hir[b].succ[i]
                   g1 == ResolveEdge(hir, g, b, succ, g.lblocks[succ].live_in, FALSE)
               IN ResolveFrom(hir,
                    IF g1.err # "" THEN g1 ELSE ResolveControl(g1, k, succ),
                    k, i + 1)

ResolveDataFlow(hir, g) == ResolveFrom(hir, g, 1, 1)

\* LInterval::Spill(index)
SpillTo(g, i, index) ==
  [g EXCEPT !.intervals_[i].type = "stackslot", !.intervals_[i].index = index]

\* The do-while loop of AllocateSpills over free_spills_: the spill taken
\* (0 if none is really free) and what is left of free_spills_
RECURSIVE PopFree(_, _, _)
\* The last of free_spills_ taken without the check that it is really free
PopFreeUnchecked(g, current, free) ==
  [f |-> free[Len(free)], free |-> SubSeq(free, 1, Len(free) - 1)]

PopFree(g, current, free) ==
  LET f == free[Len(free)]
      rest == SubSeq(free, 1, Len(free) - 1)
      busy == \/ \E k \in 1 .. Len(g.active_spills_) :
                   IsEqual(g.intervals_[g.active_spills_[k]], g.intervals_[f])
              \/ \E k \in 1 .. Len(g.inactive_spills_) :
                   /\ IsEqual(g.intervals_[g.inactive_spills_[k]], g.intervals_[f])
                   /\ FindIntersection(g.intervals_[g.inactive_spills_[k]],
                                       g.intervals_[current]) # -1
  IN IF ~busy THEN [f |-> f, free |-> rest]
     ELSE IF rest = <<>> THEN [f |-> 0, free |-> rest]
     ELSE PopFree(g, current, rest)

\* One iteration of the loop of LGen::AllocateSpills
AllocateSpill(g) ==
  LET current == Head(g.unhandled_spills_)
      Shuffled(sh) ==
        [g EXCEPT !.unhandled_spills_ = Tail(@),
                  !.active_spills_ = sh.active,
                  !.inactive_spills_ = sh.inactive,
                  !.free_spills_ = sh.handled]
      Blocked(g2) ==
        {g2.intervals_[g2.active_spills_[k]].index : k \in 1 .. Len(g2.active_spills_)}
        \cup
        {g2.intervals_[g2.inactive_spills_[k]].index :
           k \in {n \in 1 .. Len(g2.inactive_spills_) :
                    FindIntersection(g2.intervals_[g2.inactive_spills_[n]],
                                     g2.intervals_[current]) # -1}}
      MaxIndex(blocked) ==
        IF \E x \in blocked : x > 0
        THEN CHOOSE x \in blocked : \A y \in blocked : y <= x ELSE 0
      Assign(g2, index) ==
        [SpillTo(g2, current, index) EXCEPT !.active_spills_ = Append(@, current)]
      Fresh(g2, unused) ==
        IF unused # {} THEN Assign(g2, CHOOSE i \in unused : \A j \in unused : i <= j)
        ELSE IF g2.intervals_[current].index # -1 THEN g2
        ELSE [Assign(g2, g2.spill_index_) EXCEPT !.spill_index_ = @ + 1]
      Reuse(g2, blocked, max_index) ==
        Fresh(g2, {i \in 0 .. (max_index - 1) : i \notin blocked})
      Search(g2, blocked) == Reuse(g2, blocked, MaxIndex(blocked))
      Popped(g1, popped) ==
        IF popped.f # 0
        THEN Assign([g1 EXCEPT !.free_spills_ = popped.free],
                    g1.intervals_[popped.f].index)
        ELSE Search([g1 EXCEPT !.free_spills_ = popped.free],
                    Blocked([g1 EXCEPT !.free_spills_ = popped.free]))
      Free(g1) ==
        Popped(g1, IF Len(g1.free_spills_) > 0 THEN PopFree(g1, current, g1.free_spills_)
                   ELSE [f |-> 0, free |-> <<>>])
  IN Free(Shuffled(ShuffleIntervals(g, g.active_spills_, g.inactive_spills_,
                                    g.free_spills_,
                                    IntervalStart(g.intervals_[current]))))

\* LGen::AllocateSpills
RECURSIVE AllocateSpillsLoop(_)
AllocateSpillsLoop(g) ==
  IF g.unhandled_spills_ = <<>> \/ g.err # "" THEN g ELSE AllocateSpillsLoop(AllocateSpill(g))

AllocateSpills(g) ==
  AllocateSpillsLoop([g EXCEPT !.unhandled_spills_ = SortIntervals(g, @)])

\* ---------------------------------------------------------------------------
\* The compile of one function as a state machine
\* The allocator runs on a function whose control-flow graph is `shape`; its
\* HIR instructions are lowered one by one.
\*   lgen    the LGen
\*   pc      what the compile does next
\*   shape   the control-flow graph of the function being compiled
\*   hasphi  whether the join block of the graph holds a live phi
\*   bi      index in blocks_ of the block being lowered
\*   vals    the LIR results of the HIR values the current block can use
\*   saved   vals at the end of every lowered block
\*   phi     the interval of the phi (0: not met yet), and its first input
\*   nops    the number of source-level operations lowered so far
\*   nargs   the number of arguments of the function
\*   idx     the literal index of the argument being loaded
VARIABLES lgen, pc, shape, hasphi, bi, vals, saved, phi, nops, nargs, idx

lirvars == <<lgen, pc, shape, hasphi, bi, vals, saved, phi, nops, nargs, idx>>

\* The HIR builder and its passes run on a function given statement by
\* statement.
\*   hgen    the HIRGen: instructions, blocks, current block
\*   hpc     what HIRGen::Build does next
\*   open    the statements being visited (if, while), innermost first
\*   nstmts  the number of statements visited so far
VARIABLES hgen, hpc, open, nstmts, src

hirvars == <<hgen, hpc, open, nstmts, src>>

\* LGen::FlattenBlocks run one iteration at a time on the blocks of the
\* builder.
\*   work_queue  the work queue of the loop
\*   visits      the visit counter of every block
VARIABLES work_queue, visits

flatvars == <<work_queue, visits>>

vars == <<lirvars, hirvars, flatvars>>

\* The argument counts of the functions compiled.  A call that passes every
\* argument has the arguments, the callee and the literal argc live at once:
\* MaxArgs - 2 arguments fill the registers exactly, MaxArgs exceed them.
ArgCounts(s) == IF s = "while" THEN {0, 1} ELSE {0, 1, MaxArgs - 2, MaxArgs}

cfg == HIRBlocks(shape)
CurrentBlock == lgen.blocks_[bi]

InitLIR ==
  /\ shape \in Shapes
  /\ hasphi \in (IF shape = "line" THEN {FALSE} ELSE BOOLEAN)
  /\ lgen = NewLGen(HIRBlocks(shape))
  /\ pc = "flatten"
  /\ bi = 0
  /\ vals = <<>>
  /\ saved = [b \in DOMAIN HIRBlocks(shape) |-> <<>>]
  /\ phi = [interval |-> 0, first |-> 0]
  /\ nops = 0
  /\ nargs \in ArgCounts(shape)
  /\ idx = 0
  /\ hgen = <<>> /\ hpc = "idle" /\ open = <<>> /\ nstmts = 0 /\ src = <<>>
  /\ work_queue = <<>> /\ visits = <<>>

\* LGen::FlattenBlocks
Flatten ==
  /\ pc = "flatten"
  /\ lgen' = [lgen EXCEPT !.blocks_ = FlattenBlocks(cfg, 0)]
  /\ bi' = 1
  /\ pc' = "label"
  /\ UNCHANGED <<hirvars, flatvars, shape, hasphi, vals, saved, phi, nops, nargs, idx>>

\* LGen::GenerateInstructions: the label of the next block
Label ==
  /\ pc = "label"
  /\ lgen' = Add([lgen EXCEPT !.current_block_ = CurrentBlock], "Label", FALSE)
  /\ vals' = IF ValuesFrom(shape, CurrentBlock) = -1 THEN <<>>
             ELSE saved[ValuesFrom(shape, CurrentBlock)]
  /\ pc' = IF CurrentBlock = 0 THEN "entry"
           ELSE IF hasphi /\ CurrentBlock = PhiBlock(shape) THEN "phi"
           ELSE "body"
  /\ UNCHANGED <<hirvars, flatvars, shape, hasphi, bi, saved, phi, nops, nargs, idx>>

Entry ==
  /\ pc = "entry"
  /\ lgen' = VisitEntry(lgen)
  /\ pc' = IF nargs > 0 THEN "index" ELSE "body"
  /\ UNCHANGED <<hirvars, flatvars, shape, hasphi, bi, vals, saved, phi, nops, nargs, idx>>

\* HIRGen::VisitFunction: the literal index of the next argument
ArgIndex ==
  /\ pc = "index"
  /\ lgen' = VisitLiteral(lgen)
  /\ idx' = LastInterval(lgen')
  /\ pc' = "arg"
  /\ UNCHANGED <<hirvars, flatvars, shape, hasphi, bi, vals, saved, phi, nops, nargs>>

\* ... and the load of the argument
LoadArg ==
  /\ pc = "arg"
  /\ lgen' = VisitLoadArg(lgen, idx)
  /\ vals' = Append(vals, LastInterval(lgen'))
  /\ pc' = IF Len(vals') < nargs THEN "index" ELSE "body"
  /\ UNCHANGED <<hirvars, flatvars, shape, hasphi, bi, saved, phi, nops, nargs, idx>>

Phi ==
  /\ pc = "phi"
  /\ lgen' = VisitPhi(lgen)
  /\ vals' = Append(vals, phi.interval)
  /\ pc' = "body"
  /\ UNCHANGED <<hirvars, flatvars, shape, hasphi, bi, saved, phi, nops, nargs, idx>>

\* The values an instruction takes its operands from: the oldest and the
\* newest value in scope
Operands == IF vals = <<>> THEN {} ELSE {vals[1], vals[Len(vals)]}

Value(gg) == LastInterval(gg)

Op(gg) ==
  /\ CurrentBlock \in CodeBlocks(shape)
  /\ lgen' = gg
  /\ nops' = nops + 1
  /\ UNCHANGED <<hirvars, flatvars, pc, shape, hasphi, bi, saved, phi, nargs, idx>>

Literal ==
  /\ pc = "body" /\ nops < MaxOps
  /\ Op(VisitLiteral(lgen))
  /\ vals' = Append(vals, Value(lgen'))

LoadContext ==
  /\ pc = "body" /\ nops < MaxOps
  /\ Op(VisitLoadContext(lgen))
  /\ vals' = Append(vals, Value(lgen'))

AllocateObject ==
  /\ pc = "body" /\ nops < MaxOps
  /\ Op(VisitAllocateObject(lgen))
  /\ vals' = Append(vals, Value(lgen'))

StoreContext ==
  /\ pc = "body" /\ nops < MaxOps
  /\ \E x \in Operands : Op(VisitStoreContext(lgen, x))
  /\ UNCHANGED vals

\* The call of the newest value with all arguments of the function
Call ==
  /\ pc = "body" /\ nops < MaxOps
  /\ vals # <<>>
  /\ Op(VisitCall(lgen, vals[Len(vals)], SubSeq(vals, 1, nargs)))
  /\ vals' = Append(vals, Value(lgen'))

BinOp ==
  /\ pc = "body" /\ nops < MaxOps
  /\ vals # <<>>
  /\ Op(VisitBinOp(lgen, vals[1], vals[Len(vals)]))
  /\ vals' = Append(vals, Value(lgen'))

\* The end of a block: the next block, or the end of GenerateInstructions
EndBlock ==
  /\ saved' = [saved EXCEPT ![CurrentBlock] = vals]
  /\ IF bi < Len(lgen.blocks_)
     THEN bi' = bi + 1 /\ pc' = "label"
     ELSE bi' = bi /\ pc' = "live"
  /\ UNCHANGED <<hirvars, flatvars, shape, hasphi, vals, nops, nargs, idx>>

Return ==
  /\ pc = "body" /\ Len(cfg[CurrentBlock].succ) = 0
  /\ \E x \in Operands : lgen' = VisitReturn(lgen, x)
  /\ EndBlock
  /\ UNCHANGED phi

If ==
  /\ pc = "body" /\ Len(cfg[CurrentBlock].succ) = 2
  /\ \E x \in Operands : lgen' = VisitIf(lgen, x)
  /\ EndBlock
  /\ UNCHANGED phi

\* A goto to a block without a live phi
Goto ==
  /\ pc = "body" /\ Len(cfg[CurrentBlock].succ) = 1
  /\ ~(hasphi /\ cfg[CurrentBlock].succ[1] = PhiBlock(shape))
  /\ lgen' = VisitGoto(lgen, 0, 0)
  /\ EndBlock
  /\ UNCHANGED phi

\* A goto to the block of the phi: the input of the phi for this predecessor
\* is a value other than the phi and other than its first input
GotoPhi ==
  /\ pc = "body" /\ Len(cfg[CurrentBlock].succ) = 1
  /\ hasphi /\ cfg[CurrentBlock].succ[1] = PhiBlock(shape)
  /\ \E x \in Operands \ {phi.interval, phi.first} :
       /\ lgen' = VisitGoto(lgen, IF phi.interval = 0 THEN -1 ELSE phi.interval, x)
       /\ phi' = IF phi.interval = 0
                 THEN [interval |-> Len(lgen.intervals_) + 1, first |-> x]
                 ELSE phi
  /\ EndBlock

\* A phi that reaches the allocator is live: some instruction other than the
\* phi itself takes it as an input (VisitGoto skips the phis that are not)
PhiIsLive ==
  \E id \in DOMAIN lgen.linstr :
    /\ lgen.linstr[id].type # "Phi"
    /\ phi.interval \in UseIntervals(lgen, lgen.linstr[id].inputs)

\* LGen::ComputeLocalLiveSets and LGen::ComputeGlobalLiveSets
LiveSets ==
  /\ pc = "live"
  /\ hasphi => PhiIsLive
  /\ lgen' = ComputeGlobalLiveSets(cfg, ComputeLocalLiveSets(lgen))
  /\ pc' = "build"
  /\ UNCHANGED <<hirvars, flatvars, shape, hasphi, bi, vals, saved, phi, nops, nargs, idx>>

Build ==
  /\ pc = "build"
  /\ lgen' = BuildIntervals(lgen)
  /\ pc' = IF lgen'.err # "" THEN "abort" ELSE "walk"
  /\ UNCHANGED <<hirvars, flatvars, shape, hasphi, bi, vals, saved, phi, nops, nargs, idx>>

\* LGen::WalkIntervals: the loop over unhandled_, until the list is empty
RECURSIVE WalkLoop(_)
WalkLoop(g) ==
  IF g.unhandled_ = <<>> \/ g.err # "" THEN g ELSE WalkLoop(WalkIteration(g))

WalkIntervals(g) == WalkLoop(WalkPopulate(g))

\* the allocation pass of LGen::Generate
Walk ==
  /\ pc = "walk"
  /\ lgen' = WalkIntervals(lgen)
  /\ pc' = IF lgen'.err # "" THEN "abort" ELSE "allocate"
  /\ UNCHANGED <<hirvars, flatvars, shape, hasphi, bi, vals, saved, phi, nops, nargs, idx>>

Resolve ==
  /\ pc = "allocate"
  /\ lgen.unhandled_ = <<>>
  /\ lgen' = ResolveDataFlow(cfg, lgen)
  /\ pc' = IF lgen'.err # "" THEN "abort" ELSE "spills"
  /\ UNCHANGED <<hirvars, flatvars, shape, hasphi, bi, vals, saved, phi, nops, nargs, idx>>

Spills ==
  /\ pc = "spills"
  /\ lgen' = AllocateSpills(lgen)
  /\ pc' = "done"
  /\ UNCHANGED <<hirvars, flatvars, shape, hasphi, bi, vals, saved, phi, nops, nargs, idx>>

NextLIR ==
  \/ Flatten \/ Label \/ Entry \/ ArgIndex \/ LoadArg \/ Phi
  \/ Literal \/ LoadContext \/ AllocateObject \/ StoreContext \/ BinOp \/ Call
  \/ Return \/ If \/ Goto \/ GotoPhi
  \/ LiveSets \/ Build \/ Walk \/ Resolve \/ Spills

Spec == InitLIR /\ [][NextLIR]_vars

\* ---------------------------------------------------------------------------
\* Properties of the allocator

\* WalkIntervals has emptied unhandled_
Allocated == pc \in {"allocate", "spills", "done"} /\ lgen.unhandled_ = <<>>

RangesOverlap(a, b) ==
  \E i \in 1 .. Len(a.ranges), j \in 1 .. Len(b.ranges) :
    a.ranges[i][1] < b.ranges[j][2] /\ b.ranges[j][1] < a.ranges[i][2]

SameRegister(a, b) == is_register(a) /\ is_register(b) /\ a.index = b.index

\* C1: once WalkIntervals has emptied unhandled_, no two distinct intervals
\* (virtual, split children, fixed) that hold the same physical register have
\* overlapping ranges.
C1_NoRegisterOverlap ==
  Allocated =>
    \A i, j \in 1 .. Len(lgen.intervals_) :
      (i # j /\ SameRegister(lgen.intervals_[i], lgen.intervals_[j]))
        => ~RangesOverlap(lgen.intervals_[i], lgen.intervals_[j])

\* C1 witness: allocation is over and a virtual interval shares its register
\* with a fixed interval and with another virtual interval, all with ranges.
C1_Witness ==
  /\ Allocated
  /\ \E i, j, k \in 1 .. Len(lgen.intervals_) :
       /\ i < j /\ ~lgen.intervals_[i].fixed /\ ~lgen.intervals_[j].fixed
       /\ lgen.intervals_[k].fixed
       /\ SameRegister(lgen.intervals_[i], lgen.intervals_[j])
       /\ SameRegister(lgen.intervals_[i], lgen.intervals_[k])
       /\ Len(lgen.intervals_[i].ranges) > 0
       /\ Len(lgen.intervals_[j].ranges) > 0
       /\ Len(lgen.intervals_[k].ranges) > 0

\* C2: once allocation is over, every Register-constrained use belongs to an
\* interval that holds a physical register, and no interval spilled to a
\* stack slot has a Register-constrained use in its use list.
C2_RegisterUsesSatisfied ==
  Allocated =>
    /\ \A u \in 1 .. Len(lgen.luse) :
         lgen.luse[u].type = "register"
           => is_register(lgen.intervals_[lgen.luse[u].interval])
    /\ \A i \in 1 .. Len(lgen.intervals_) :
         is_stackslot(lgen.intervals_[i])
           => \A k \in 1 .. Len(lgen.intervals_[i].uses) :
                lgen.luse[lgen.intervals_[i].uses[k]].type # "register"

\* C2 witness: allocation is over, an interval was split, one of the pieces
\* is spilled and another piece owns a Register-constrained use.
C2_Witness ==
  /\ Allocated
  /\ \E i, j \in 1 .. Len(lgen.intervals_) :
       /\ i # j
       /\ is_stackslot(lgen.intervals_[i])
       /\ lgen.intervals_[j].split_parent # 0
       /\ \/ lgen.intervals_[j].split_parent = i
          \/ lgen.intervals_[j].split_parent = lgen.intervals_[i].split_parent
       /\ \E k \in 1 .. Len(lgen.intervals_[j].uses) :
            lgen.luse[lgen.intervals_[j].uses[k]].type = "register"

Resolved == pc \in {"spills", "done"}

\* The pieces of the value of interval `key` (the interval itself and its
\* split children) that have a range holding position pos
PiecesAt(key, pos) ==
  {i \in {key} \cup SeqSet(lgen.intervals_[key].split_children) :
     \E k \in 1 .. Len(lgen.intervals_[i].ranges) :
       /\ lgen.intervals_[i].ranges[k][1] <= pos
       /\ pos < lgen.intervals_[i].ranges[k][2]}

\* The gap with id `pos` is in the instruction list of block b and holds a
\* move from interval l to interval r
GapCarries(b, pos, l, r) ==
  /\ pos \in SeqSet(lgen.lblocks[b].instructions)
  /\ pos \in DOMAIN lgen.linstr
  /\ lgen.linstr[pos].type = "Gap"
  /\ \E m \in 1 .. Len(lgen.linstr[pos].moves) :
       /\ lgen.luse[lgen.linstr[pos].moves[m][1]].interval = l
       /\ lgen.luse[lgen.linstr[pos].moves[m][2]].interval = r

\* The edge p -> s is resolved for the split interval `key`
EdgeResolved(p, s, key) ==
  LET ls == PiecesAt(key, lgen.lblocks[p].end_id)
      rs == PiecesAt(key, lgen.lblocks[s].start_id)
  IN /\ ls # {} /\ rs # {}
     /\ \A l \in ls, r \in rs :
          \/ l = r
          \/ IF Len(cfg[p].succ) = 2
             THEN GapCarries(s, lgen.lblocks[s].start_id + 1, l, r)
             ELSE GapCarries(p, lgen.lblocks[p].end_id - 1, l, r)

\* C3: after ResolveDataFlow, for every edge p -> s and every interval of
\* s's live_in that was split, the piece covering p's end_id is the piece
\* covering s's start_id, or the gap of the edge (after s's label when p has
\* two successors, before p's last instruction otherwise) moves the former
\* to the latter.
C3_EdgesResolved ==
  Resolved =>
    \A p \in SeqSet(lgen.blocks_) : \A n \in 1 .. Len(cfg[p].succ) :
      \A key \in lgen.lblocks[cfg[p].succ[n]].live_in :
        Len(lgen.intervals_[key].split_children) > 0
          => EdgeResolved(p, cfg[p].succ[n], key)

\* C3 witness: after ResolveDataFlow some edge has different pieces of a
\* split interval on its two ends.
C3_Witness ==
  /\ Resolved
  /\ \E p \in SeqSet(lgen.blocks_) : \E n \in 1 .. Len(cfg[p].succ) :
       \E key \in lgen.lblocks[cfg[p].succ[n]].live_in :
         /\ Len(lgen.intervals_[key].split_children) > 0
         /\ PiecesAt(key, lgen.lblocks[p].end_id)
              # PiecesAt(key, lgen.lblocks[cfg[p].succ[n]].start_id)
         /\ PiecesAt(key, lgen.lblocks[p].end_id) # {}


\* The temporary intervals of the gaps
GapTmps == {lgen.linstr[k].tmp : k \in {n \in DOMAIN lgen.linstr : lgen.linstr[n].type = "Gap"}}

\* The intervals of the values of the program: the intervals that are not
\* fixed and not the temporary of a gap, split children under their parent.
ValueIntervals ==
  {i \in 1 .. Len(lgen.intervals_) : ~IsFixed(lgen.intervals_[i]) /\ i \notin GapTmps}

Values == {i \in ValueIntervals : lgen.intervals_[i].split_parent = 0}

\* The value `v` is live at `pos`: the value or one of its pieces covers it
LiveAt(v, pos) == PiecesAt(v, pos) # {}

\* At most `n` values are live at every point of the program
AtMostLive(n) ==
  \A pos \in 0 .. lgen.instr_id_ : Cardinality({v \in Values : LiveAt(v, pos)}) <= n

\* A value is live across an instruction that makes a call
LiveAcrossCall ==
  \E k \in DOMAIN lgen.linstr :
    /\ lgen.linstr[k].hascall
    /\ \E v \in Values : LiveAt(v, k)

\* C10 as stated: with at most kLIRRegisterCount values live at every point,
\* no interval is spilled and the spill counter stays 0.
C10_NoSpillAsStated ==
  (pc = "done" /\ AtMostLive(kLIRRegisterCount)) =>
    /\ lgen.spill_index_ = 0
    /\ \A i \in 1 .. Len(lgen.intervals_) : ~is_stackslot(lgen.intervals_[i])

\* C10: in a program where at most kLIRRegisterCount values are live at every
\* point and no value is live across an instruction that makes a call, no
\* interval of a value is spilled: the only intervals with a stack slot are
\* the temporaries of the gaps (which LGen::GetGap always spills, so that the
\* spill counter need not be 0).
C10_OnlyGapTemporariesSpilled ==
  (pc = "done" /\ AtMostLive(kLIRRegisterCount) /\ ~LiveAcrossCall) =>
    \A i \in ValueIntervals : ~is_stackslot(lgen.intervals_[i])

\* exactly kLIRRegisterCount values are live at some point, none across a
\* call, and the allocator has given spill slots to temporaries of gaps
C10_Witness ==
  /\ pc = "done"
  /\ AtMostLive(kLIRRegisterCount)
  /\ ~AtMostLive(kLIRRegisterCount - 1)
  /\ ~LiveAcrossCall
  /\ lgen.spill_index_ > 0
  /\ \E i \in GapTmps : is_stackslot(lgen.intervals_[i])
\* ===========================================================================
\* HIR (src/src/hir.cc).  Instructions and blocks are kept in arenas and named
\* by their 1-based index; 0 is NULL.  The inline members of HIRInstruction,
\* HIRPhi, HIRBlock and HIRGen (hir-inl.h, hir-instructions.cc) are not part
\* of the sources at hand: they follow the data model of the specification.

\* Largest number of statements of the compiled function
MaxStmts == 4
\* Number of stack slots of the compiled function
MaxSlots == 2

Slots == 1 .. MaxSlots

\* HIRInstruction::HIRInstruction; val is the text of a literal, "" otherwise
NewHIRInstruction(kind, val) ==
  [kind |-> kind, val |-> val, block |-> 0, args |-> <<>>, uses |-> <<>>,
   removed |-> FALSE, input_count |-> 0, is_live |-> FALSE, gvn_visited |-> FALSE,
   pinned |-> TRUE, effects_in |-> <<>>, effects_out |-> <<>>, alias_visited |-> 0,
   gcm_visited |-> 0]

\* HIRBlock::HIRBlock with the HIREnvironment of HIRGen::CreateBlock: one more
\* slot than the function has, for the logic slot.  semi_ and label_ are the
\* block itself (`self`).
NewHIRBlock(self) ==
  [pred |-> <<>>, succ |-> <<>>, phis |-> <<>>, instructions |-> <<>>,
   env |-> [i \in 1 .. MaxSlots + 1 |-> 0],
   envphis |-> [i \in 1 .. MaxSlots + 1 |-> 0],
   loop |-> FALSE, ended |-> FALSE, dfs_id |-> -1, parent |-> 0,
   ancestor |-> 0, label |-> self, semi |-> self, dominator |-> 0,
   dominates |-> <<>>, loop_depth |-> -1, reachable_from |-> {}]

\* HIRGen::HIRGen.  res is the value of the last visit (the HIRInstruction*
\* the visitors return, the HIRBlock* of Evaluate), err the first failed
\* assert; dfs_blocks_ and gvn are the list of DeriveDominators and the map of
\* GlobalValueNumbering.
NewHIRGen ==
  [instrs |-> <<>>, blocks |-> <<>>, current_block_ |-> 0, res |-> 0, err |-> "",
   dfs_blocks_ |-> <<>>, gvn |-> <<>>, loop_depth_ |-> 0]

HIRFail(h, what) == IF h.err # "" THEN h ELSE [h EXCEPT !.err = what]

\* HIRGen::CreateBlock: the new block is the last of blocks_ and has the loop
\* depth of the statement that is visited
CreateBlock(h) ==
  [h EXCEPT !.blocks = Append(@, [NewHIRBlock(Len(@) + 1) EXCEPT
                                    !.loop_depth = h.loop_depth_])]

LastBlock(h) == Len(h.blocks)

\* HIRBlock::Add of a new instruction: it joins the instruction list of the
\* block unless the block has ended already.  The instruction is res.
HIRAdd(h, b, kind, val) ==
  LET i == Len(h.instrs) + 1
  IN [h EXCEPT !.instrs = Append(@, [NewHIRInstruction(kind, val) EXCEPT !.block = b]),
               !.blocks[b].instructions = IF h.blocks[b].ended THEN @ ELSE Append(@, i),
               !.res = i]

\* HIRInstruction::Unpin
Unpin(h, i) == IF h.err # "" THEN h ELSE [h EXCEPT !.instrs[i].pinned = FALSE]

\* HIRInstruction::Pin
Pin(h, i) == [h EXCEPT !.instrs[i].pinned = TRUE]

\* HIRInstruction::AddArg
HIRAddArg(h, i, a) ==
  IF a = 0 THEN HIRFail(h, "AddArg: NULL")
  ELSE IF a = i
  THEN [h EXCEPT !.instrs[i].args = Append(@, a), !.instrs[i].uses = Append(@, i)]
  ELSE [h EXCEPT !.instrs[i].args = Append(@, a), !.instrs[a].uses = Append(@, i)]

\* The first position of x in the list s, 0 if there is none
IndexOf(s, x) ==
  IF \E k \in 1 .. Len(s) : s[k] = x
  THEN CHOOSE k \in 1 .. Len(s) : s[k] = x /\ \A j \in 1 .. k - 1 : s[j] # x
  ELSE 0

\* HIRInstruction::RemoveUse: the first entry of `user` leaves o's uses
RemoveUse(h, o, user) ==
  IF IndexOf(h.instrs[o].uses, user) = 0 THEN h
  ELSE [h EXCEPT !.instrs[o].uses = RemoveAt(@, IndexOf(@, user))]

\* HIRInstruction::ReplaceArg: the first argument o of `user` becomes n
ReplaceArg(h, user, o, n) ==
  LET k == IndexOf(h.instrs[user].args, o)
      Moved(h1) == [h1 EXCEPT !.instrs[n].uses = Append(@, user)]
  IN IF k = 0 THEN h
     ELSE Moved(RemoveUse([h EXCEPT !.instrs[user].args[k] = n], o, user))

\* HIRGen::Replace: every use of o, in the order of the list as it was
RECURSIVE ReplaceFrom(_, _, _, _, _)
ReplaceFrom(h, uses, k, o, n) ==
  IF k > Len(uses) \/ h.err # "" THEN h
  ELSE ReplaceFrom(ReplaceArg(h, uses[k], o, n), uses, k + 1, o, n)

\* Only the first use of o is rewired
ReplaceOnce(h, o, n) ==
  IF h.instrs[o].uses = <<>> THEN h ELSE ReplaceArg(h, Head(h.instrs[o].uses), o, n)

Replace(h, o, n) == ReplaceFrom(h, h.instrs[o].uses, 1, o, n)

\* HIRInstruction::Remove: the instruction is marked removed and leaves the
\* uses of its arguments
RECURSIVE RemoveUses(_, _, _)
RemoveUses(h, i, k) ==
  IF k > Len(h.instrs[i].args) THEN h
  ELSE RemoveUses(RemoveUse(h, h.instrs[i].args[k], i), i, k + 1)

InstrRemove(h, i) == RemoveUses([h EXCEPT !.instrs[i].removed = TRUE], i, 1)

\* HIRBlock::Remove (called on the block of the instruction)
BlockRemove(h, i) ==
  LET b == h.instrs[i].block
      k == IndexOf(h.blocks[b].instructions, i)
  IN InstrRemove(IF k = 0 THEN h
                 ELSE [h EXCEPT !.blocks[b].instructions = RemoveAt(@, k)], i)
\* HIRBlock::Assign
Assign(h, b, slot, value) ==
  IF value = 0 THEN HIRFail(h, "Assign: assert")
  ELSE [h EXCEPT !.blocks[b].env[slot] = value]

\* HIRBlock::CreatePhi: a phi of block b for the slot, in the phi list of the
\* block and in the phi array of its environment.  The phi is res.
CreatePhi(h, b, slot) ==
  LET i == Len(h.instrs) + 1
  IN [h EXCEPT !.instrs = Append(@, [NewHIRInstruction("Phi", "") EXCEPT !.block = b]),
               !.blocks[b].phis = Append(@, i),
               !.blocks[b].envphis[slot] = i,
               !.res = i]

\* HIRBlock::Add of an instruction that exists already (a phi)
PushInstruction(h, b, i) ==
  IF h.blocks[b].ended THEN h
  ELSE [h EXCEPT !.blocks[b].instructions = Append(@, i)]

\* HIRPhi::InputAt: the inputs of a phi are its first arguments
InputAt(h, p, k) == h.instrs[p].args[k + 1]

\* HIRPhi::AddInput
AddInput(h, p, i) ==
  IF h.instrs[p].input_count >= 2 THEN HIRFail(h, "AddInput: assert")
  ELSE HIRAddArg([h EXCEPT !.instrs[p].input_count = @ + 1], p, i)

\* A new phi takes the value of the new predecessor first
MergeSlotCurrFirst(h, this, i, curr) ==
  LET old == h.blocks[this].env[i]
      p == h.blocks[this].envphis[i]
      Fresh(h1) == Assign(AddInput(PushInstruction(h1, this, h1.res), h1.res, curr),
                          this, i, h1.res)
      Input(h2, v) == AddInput(h2, h2.blocks[this].envphis[i], v)
  IN IF curr = 0 \/ old = curr THEN h
     ELSE IF old = 0 THEN [h EXCEPT !.blocks[this].env[i] = curr]
     ELSE IF p # 0 /\ h.instrs[p].block = this THEN Input(h, curr)
     ELSE IF Len(h.blocks[this].phis) # Len(h.blocks[this].instructions)
     THEN HIRFail(h, "AddPredecessor: assert phis")
     ELSE Input(Fresh(CreatePhi(h, this, i)), old)

\* A phi of another block takes the input as well
MergeSlotAnyPhi(h, this, i, curr) ==
  LET old == h.blocks[this].env[i]
      p == h.blocks[this].envphis[i]
      Fresh(h1) == Assign(AddInput(PushInstruction(h1, this, h1.res), h1.res, old),
                          this, i, h1.res)
      Input(h2) == AddInput(h2, h2.blocks[this].envphis[i], curr)
  IN IF curr = 0 \/ old = curr THEN h
     ELSE IF old = 0 THEN [h EXCEPT !.blocks[this].env[i] = curr]
     ELSE IF p # 0 THEN Input(h)
     ELSE IF Len(h.blocks[this].phis) # Len(h.blocks[this].instructions)
     THEN HIRFail(h, "AddPredecessor: assert phis")
     ELSE Input(Fresh(CreatePhi(h, this, i)))

\* The merge of slot i in the second call of HIRBlock::AddPredecessor
MergeSlot(h, this, i, curr) ==
  LET old == h.blocks[this].env[i]
      p == h.blocks[this].envphis[i]
      Fresh(h1) == Assign(AddInput(PushInstruction(h1, this, h1.res), h1.res, old),
                          this, i, h1.res)
      Input(h2) == AddInput(h2, h2.blocks[this].envphis[i], curr)
  IN IF curr = 0 \/ old = curr THEN h
     ELSE IF old = 0 THEN [h EXCEPT !.blocks[this].env[i] = curr]
     ELSE IF p # 0 /\ h.instrs[p].block = this THEN Input(h)
     ELSE IF Len(h.blocks[this].phis) # Len(h.blocks[this].instructions)
     THEN HIRFail(h, "AddPredecessor: assert phis")
     ELSE Input(Fresh(CreatePhi(h, this, i)))

RECURSIVE MergeSlots(_, _, _, _)
MergeSlots(h, this, b, i) ==
  IF i > MaxSlots + 1 \/ h.err # "" THEN h
  ELSE MergeSlots(MergeSlot(h, this, i, h.blocks[b].env[i]), this, b, i + 1)

\* Every call copies the environment of the predecessor
AddPredecessorCopies(h, this, b) ==
  [h EXCEPT !.blocks[this].pred = Append(@, b),
            !.blocks[this].env = h.blocks[b].env,
            !.blocks[this].envphis = h.blocks[b].envphis]

\* HIRBlock::AddPredecessor
AddPredecessor(h, this, b) ==
  IF Len(h.blocks[this].pred) >= 2 THEN HIRFail(h, "AddPredecessor: assert")
  ELSE IF Len(h.blocks[this].pred) = 0
  THEN [h EXCEPT !.blocks[this].pred = Append(@, b),
                 !.blocks[this].env = h.blocks[b].env,
                 !.blocks[this].envphis = h.blocks[b].envphis]
  ELSE MergeSlots([h EXCEPT !.blocks[this].pred = Append(@, b)], this, b, 1)

\* HIRBlock::Goto: nothing happens to a block that has ended
HIRGoto(h, b, target) ==
  LET Linked(h1) ==
        AddPredecessor([h1 EXCEPT !.blocks[b].succ = Append(@, target),
                                  !.blocks[b].ended = TRUE], target, b)
  IN IF h.blocks[b].ended \/ h.err # "" THEN h
     ELSE IF Len(h.blocks[b].succ) >= 2 THEN HIRFail(h, "Goto: assert")
     ELSE Linked(HIRAdd(h, b, "Goto", ""))

\* HIRBlock::Branch with the condition as argument of the HIRIf
Branch(h, b, t, f, cond) ==
  LET Linked(h1) ==
        AddPredecessor(
          AddPredecessor([h1 EXCEPT !.blocks[b].succ = <<t, f>>,
                                    !.blocks[b].ended = TRUE], t, b), f, b)
      Cond(h1) == HIRAddArg(h1, h1.res, cond)
  IN IF h.blocks[b].ended \/ h.err # "" THEN h
     ELSE Linked(Cond(HIRAdd(h, b, "If", "")))

\* HIRBlock::Return with the value as argument of the HIRReturn
HIRReturn(h, b, value) ==
  LET Ended(h1) == [HIRAddArg(h1, h1.res, value) EXCEPT !.blocks[b].ended = TRUE]
  IN IF h.blocks[b].ended \/ h.err # "" THEN h
     ELSE Ended(HIRAdd(h, b, "Return", ""))

\* HIRGen::Join: the new block is the last of blocks_
Join(h, t, f) ==
  LET Joined(h1) == HIRGoto(HIRGoto(h1, t, LastBlock(h1)), f, LastBlock(h1))
  IN Joined(CreateBlock(h))

\* HIRBlock::MarkPreLoop
RECURSIVE MarkPreLoop(_, _, _)
MarkPreLoop(h, b, i) ==
  LET Nil(h1) == Assign(h1, b, i, h1.res)
  IN IF i > MaxSlots \/ h.err # "" THEN h
     ELSE MarkPreLoop(IF h.blocks[b].env[i] # 0 THEN h ELSE Nil(HIRAdd(h, b, "Nil", "")),
                      b, i + 1)

\* HIRBlock::MarkLoop
RECURSIVE MarkLoopFrom(_, _, _)
MarkLoopFrom(h, b, i) ==
  LET old == h.blocks[b].env[i]
      Seed(h1) == IF old = 0 THEN h1 ELSE AddInput(h1, h1.res, old)
      Added(h2) == PushInstruction(Assign(h2, b, i, h2.res), b, h2.res)
      Made(h1) == Added([Seed(h1) EXCEPT !.res = h1.res])
  IN IF i > MaxSlots \/ h.err # "" THEN h
     ELSE MarkLoopFrom(Made(CreatePhi(h, b, i)), b, i + 1)

MarkLoop(h, b) == MarkLoopFrom([h EXCEPT !.blocks[b].loop = TRUE], b, 1)
\* ---------------------------------------------------------------------------
\* The visitors of HIRGen.  The expressions of the statements of a function
\* with control flow are a literal, the value of a stack slot or the sum of two
\* slots; the instruction of the expression is res.
Exprs ==
  {[k |-> "literal", val |-> "1"]} \cup {[k |-> "value", slot |-> s] : s \in Slots}
    \cup {[k |-> "binop", lhs |-> s, rhs |-> t] : s, t \in Slots}

\* HIRGen::VisitValue of a stack slot
VisitValue(h, slot) ==
  LET b == h.current_block_
      i == h.blocks[b].env[slot]
      Seed(h1) == IF i = 0 THEN h1 ELSE AddInput(h1, h1.res, i)
      External(h1) == PushInstruction(Assign(Seed(h1), b, slot, h1.res), b, h1.res)
  IN IF i # 0 /\ h.instrs[i].block = b THEN [h EXCEPT !.res = i]
     ELSE External(CreatePhi(h, b, slot))

\* HIRGen::VisitLiteral; val stands for the slot of the literal in the root
HIRVisitLiteral(h, e) ==
  Unpin(HIRAdd(h, h.current_block_, "Literal", e.val), Len(h.instrs) + 1)

\* An instruction of two arguments, added to the current block; it is res
AddBinary(h, kind, val, lhs, rhs) ==
  HIRAddArg(HIRAddArg(HIRAdd(h, h.current_block_, kind, val), Len(h.instrs) + 1, lhs),
            Len(h.instrs) + 1, rhs)

\* HIRGen::VisitBinOp of the sum of two slots
HIRVisitBinOp(h, e) ==
  LET Rhs(h1, lhs) ==
        Unpin(AddBinary(h1, "BinOp", "kAdd", lhs, h1.res), Len(h1.instrs) + 1)
      Lhs(h1) == Rhs(VisitValue(h1, e.rhs), h1.res)
  IN Lhs(VisitValue(h, e.lhs))

RECURSIVE Visit(_, _)

\* HIRGen::VisitBinOp of && ("and") and || ("or"): the value of the logic slot
\* in the true branch (on) and in the false branch: the right side, visited
\* in the branch, or the left side
LogicAssignOther(h, e, lhs, on) ==
  LET Other(h4) == Assign(h4, h4.current_block_, MaxSlots + 1, h4.res)
  IN IF (e.k = "and") # on THEN Other(Visit(h, e.rhs))
     ELSE Assign(h, h.current_block_, MaxSlots + 1, lhs)

LogicAssign(h, e, lhs, on) ==
  LET Other(h4) == Assign(h4, h4.current_block_, MaxSlots + 1, h4.res)
  IN IF (e.k = "and") = on THEN Other(Visit(h, e.rhs))
     ELSE Assign(h, h.current_block_, MaxSlots + 1, lhs)

\* The blocks t and f are joined as they were made, not as the visits of the
\* operands left them
HIRVisitLogicFirstBlocks(h, e) ==
  LET slot == MaxSlots + 1
      Result(h6) ==
        IF h6.err # "" THEN h6
        ELSE IF h6.blocks[h6.current_block_].envphis[slot] = 0
        THEN HIRFail(h6, "VisitBinOp: assert")
        ELSE [h6 EXCEPT !.res = h6.blocks[h6.current_block_].envphis[slot]]
      Joined(h5, t, f) ==
        Result([Join(h5, t, f) EXCEPT !.current_block_ = Len(h5.blocks) + 1])
      InF(h4, lhs, t, f) == Joined(LogicAssign(h4, e, lhs, FALSE), t, f)
      EndT(h4, lhs, t, f) == InF([h4 EXCEPT !.current_block_ = f], lhs, t, f)
      InT(h3, lhs, t, f) == EndT(LogicAssign(h3, e, lhs, TRUE), lhs, t, f)
      Branched(h2, branch, lhs) ==
        InT([Branch(CreateBlock(CreateBlock(h2)), branch, branch + 1, branch + 2, lhs)
               EXCEPT !.current_block_ = branch + 1], lhs, branch + 1, branch + 2)
      Lhs(h1) ==
        Branched(HIRGoto(CreateBlock(h1), h1.current_block_, Len(h1.blocks) + 1),
                 Len(h1.blocks) + 1, h1.res)
  IN Lhs(Visit(h, e.lhs))

\* ... the blocks and the phi: the slot is the logic slot, the last of the
\* environment
HIRVisitLogic(h, e) ==
  LET slot == MaxSlots + 1
      Result(h6) ==
        IF h6.err # "" THEN h6
        ELSE IF h6.blocks[h6.current_block_].envphis[slot] = 0
        THEN HIRFail(h6, "VisitBinOp: assert")
        ELSE [h6 EXCEPT !.res = h6.blocks[h6.current_block_].envphis[slot]]
      Joined(h5, t) ==
        Result([Join(h5, t, h5.current_block_) EXCEPT !.current_block_ = Len(h5.blocks) + 1])
      InF(h4, lhs, t) == Joined(LogicAssign(h4, e, lhs, FALSE), t)
      EndT(h4, lhs, f) == InF([h4 EXCEPT !.current_block_ = f], lhs, h4.current_block_)
      InT(h3, lhs, f) == EndT(LogicAssign(h3, e, lhs, TRUE), lhs, f)
      Branched(h2, branch, lhs) ==
        InT([Branch(CreateBlock(CreateBlock(h2)), branch, branch + 1, branch + 2, lhs)
               EXCEPT !.current_block_ = branch + 1], lhs, branch + 2)
      Lhs(h1) ==
        Branched(HIRGoto(CreateBlock(h1), h1.current_block_, Len(h1.blocks) + 1),
                 Len(h1.blocks) + 1, h1.res)
  IN Lhs(Visit(h, e.lhs))

\* HIRGen::GetNumber: the visit of a number literal
Digits == <<"0", "1", "2", "3", "4", "5">>

GetNumber(h, n) == Visit(h, [k |-> "literal", val |-> Digits[n + 1]])

\* HIRGen::VisitObjectLiteral: the stores of the keys from the k-th on
RECURSIVE StoreKeys(_, _, _, _)
StoreKeys(h, e, res, k) ==
  LET Store(h2, value) ==
        HIRAddArg(AddBinary(h2, "StoreProperty", "", res, h2.res), Len(h2.instrs) + 1, value)
      Key(h1) == Store(Visit(h1, e.keys[k]), h1.res)
  IN IF k > Len(e.keys) THEN [h EXCEPT !.res = res]
     ELSE StoreKeys(Key(Visit(h, e.values[k])), e, res, k + 1)

HIRVisitObjectLiteral(h, e) ==
  StoreKeys(HIRAdd(h, h.current_block_, "AllocateObject", ""), e, Len(h.instrs) + 1, 1)

\* HIRGen::VisitMember
HIRVisitMember(h, e) ==
  LET Recv(h1, prop) ==
        Unpin(AddBinary(h1, "LoadProperty", "", h1.res, prop), Len(h1.instrs) + 1)
      Prop(h1) == Recv(Visit(h1, e.lhs), h1.res)
  IN Prop(Visit(h, e.rhs))

\* HIRGen::VisitDelete
HIRVisitDelete(h, e) ==
  LET Nil(h2) == HIRAdd(h2, h2.current_block_, "Nil", "")
      Recv(h1, prop) == Nil(AddBinary(h1, "DeleteProperty", "", h1.res, prop))
      Prop(h1) == Recv(Visit(h1, e.lhs.lhs), h1.res)
  IN Prop(Visit(h, e.lhs.rhs))

\* new HIRStoreArg(), new HIRStoreVarArg(): an instruction that is in no block
\* yet; it is res
NewStore(h, kind) ==
  [h EXCEPT !.instrs = Append(@, NewHIRInstruction(kind, "")), !.res = Len(h.instrs) + 1]

\* HIRBlock::Add of a store
AddStore(h, i) ==
  PushInstruction([h EXCEPT !.instrs[i].block = h.current_block_], h.current_block_, i)

\* HIRGen::VisitCall keeps its locals in the record c: the graph h, stores_,
\* vararg, length, hargc, receiver and var.  First the loop over the arguments
\* from the k-th on.
RECURSIVE CallArgs(_, _, _)
CallArgs(c, args, k) ==
  LET Stored(h1, current) ==
        [c EXCEPT !.h = HIRAddArg(h1, current, h1.res),
                  !.stores_ = Unshift(@, current),
                  !.vararg = IF args[k].k = "vararg" THEN h1.res ELSE @]
      Rhs(h0, arg) == Stored(Visit(h0, arg), h0.res)
  IN IF k > Len(args) THEN c
     ELSE CallArgs(IF args[k].k = "self" THEN c
                   ELSE IF args[k].k = "vararg"
                   THEN Rhs(NewStore(c.h, "StoreVarArg"), args[k].lhs)
                   ELSE Rhs(NewStore(c.h, "StoreArg"), args[k]),
                   args, k + 1)

\* ... argc and the alignment
CallArgc(c, args) ==
  LET Sum(h2, hargc) ==
        [c EXCEPT !.h = AddBinary(h2, "BinOp", "kAdd", hargc, h2.res),
                  !.length = h2.res, !.hargc = Len(h2.instrs) + 1]
      Length(h1) ==
        IF c.vararg = 0 THEN [c EXCEPT !.h = h1, !.hargc = h1.res]
        ELSE Sum(HIRAddArg(HIRAdd(h1, h1.current_block_, "Sizeof", ""),
                           Len(h1.instrs) + 1, c.vararg), h1.res)
  IN Length(GetNumber(c.h, Len(args) - IF c.vararg # 0 THEN 1 ELSE 0))

\* ... the self argument and the function
CallVariable(c, e) ==
  LET Plain(h3) == [c EXCEPT !.h = h3, !.var = h3.res]
      Load(h2, receiver) ==
        Unpin(AddBinary(h2, "LoadProperty", "", receiver, h2.res), Len(h2.instrs) + 1)
      Property(c1) ==
        LET Var(h3) == [c1 EXCEPT !.h = h3, !.var = h3.res]
        IN IF e.variable.k # "member" THEN [c1 EXCEPT !.h = HIRFail(@, "VisitCall: assert")]
        ELSE Var(Load(Visit(c1.h, e.variable.rhs), c1.receiver))
      Store(h2, receiver) ==
        [c EXCEPT !.h = HIRAddArg(h2, h2.res, receiver), !.receiver = receiver,
                  !.stores_ = Append(@, h2.res)]
      Receiver(h1) == Store(NewStore(h1, "StoreArg"), h1.res)
  IN IF e.args # <<>> /\ e.args[1].k = "self"
     THEN Property(Receiver(Visit(c.h, e.variable.lhs)))
     ELSE Plain(Visit(c.h, e.variable))

\* ... the indexes of the stores, from the k-th store down to the first
RECURSIVE CallIndexes(_, _, _, _, _)
CallIndexes(c, k, i, index, seen_varg) ==
  LET one == [k |-> "literal", val |-> "1"]
      Again(h4, seen) == CallIndexes([c EXCEPT !.h = h4], k - 1, i + 1, h4.res, seen)
      Inc(h3, index3) == AddBinary(h3, "BinOp", "kAdd", index3, h3.res)
      Indexed(h2, index2, seen) ==
        IF k = 1 THEN [c EXCEPT !.h = HIRAddArg(h2, c.stores_[k], index2)]
        ELSE IF seen
        THEN Again(Inc(Visit(HIRAddArg(h2, c.stores_[k], index2), one), index2), seen)
        ELSE Again(GetNumber(HIRAddArg(h2, c.stores_[k], index2), i + 1), seen)
      Dec(h2, index2) == AddBinary(h2, "BinOp", "kSub", index2, h2.res)
      One(h1) == Dec(Visit(h1, one), h1.res)
      Var(h1) == Indexed(h1, h1.res, TRUE)
  IN IF k = 0 THEN c
     ELSE IF c.h.instrs[c.stores_[k]].kind = "StoreVarArg"
     THEN IF c.length = 0 THEN [c EXCEPT !.h = HIRFail(@, "VisitCall: assert length")]
          ELSE Var(One(AddBinary(c.h, "BinOp", "kAdd", index, c.length)))
     ELSE Indexed(c.h, index, seen_varg)

\* ... the stores, from the head of stores_ to its tail
RECURSIVE CallStores(_, _, _), CallStoresFromTail(_, _, _)
\* The stores are added from the tail of stores_ to its head
CallStoresFromTail(h, stores_, k) ==
  IF k > Len(stores_) \/ h.err # "" THEN h
  ELSE CallStoresFromTail(AddStore(h, stores_[Len(stores_) + 1 - k]), stores_, k + 1)

CallStores(h, stores_, k) ==
  IF k > Len(stores_) \/ h.err # "" THEN h
  ELSE CallStores(AddStore(h, stores_[k]), stores_, k + 1)

\* HIRGen::VisitCall of a call that is not __$gc() or __$trace()
HIRVisitCall(h, e) ==
  LET Called(c) == AddBinary(CallStores(c.h, c.stores_, 1), "Call", "", c.var, c.hargc)
      Index(c, h1) == Called(CallIndexes([c EXCEPT !.h = h1], Len(c.stores_), 0, h1.res, FALSE))
      Zero(c, h1) == Index(c, GetNumber(h1, 0))
      Align(c) == Zero(c, HIRAddArg(HIRAdd(c.h, c.h.current_block_, "AlignStack", ""),
                                    Len(c.h.instrs) + 1, c.hargc))
      Variable(c) == Align(CallVariable(c, e))
      Argc(c) == Variable(CallArgc(c, e.args))
  IN Argc(CallArgs([h |-> h, stores_ |-> <<>>, vararg |-> 0, length |-> 0, hargc |-> 0,
                    receiver |-> 0, var |-> 0], e.args, 1))

\* HIRGen::Visit
VisitAnyway(h, e) ==
  IF h.err # "" THEN h
  ELSE IF e.k = "literal" THEN HIRVisitLiteral(h, e)
  ELSE IF e.k = "value" THEN VisitValue(h, e.slot)
  ELSE IF e.k = "binop" THEN HIRVisitBinOp(h, e)
  ELSE IF e.k \in {"and", "or"} THEN HIRVisitLogic(h, e)
  ELSE IF e.k = "object" THEN HIRVisitObjectLiteral(h, e)
  ELSE IF e.k = "member" THEN HIRVisitMember(h, e)
  ELSE IF e.k = "delete" THEN HIRVisitDelete(h, e)
  ELSE HIRVisitCall(h, e)

Visit(h, e) ==
  IF h.err # "" THEN h
  ELSE IF h.blocks[h.current_block_].ended
  THEN HIRAdd(h, h.current_block_, "Nil", "")
  ELSE IF e.k = "literal" THEN HIRVisitLiteral(h, e)
  ELSE IF e.k = "value" THEN VisitValue(h, e.slot)
  ELSE IF e.k = "binop" THEN HIRVisitBinOp(h, e)
  ELSE IF e.k \in {"and", "or"} THEN HIRVisitLogic(h, e)
  ELSE IF e.k = "object" THEN HIRVisitObjectLiteral(h, e)
  ELSE IF e.k = "member" THEN HIRVisitMember(h, e)
  ELSE IF e.k = "delete" THEN HIRVisitDelete(h, e)
  ELSE HIRVisitCall(h, e)

\* HIRGen::VisitAssign to a stack slot
VisitAssign(h, slot, e) ==
  LET Rhs(h1) == IF h1.err # "" THEN h1 ELSE Assign(h1, h1.current_block_, slot, h1.res)
  IN Rhs(Visit(h, e))

\* HIRGen::VisitAssign to a member
VisitAssignMember(h, lhs, e) ==
  LET Store(h3, rhs, property) ==
        [HIRAddArg(AddBinary(h3, "StoreProperty", "", h3.res, property),
                   Len(h3.instrs) + 1, rhs) EXCEPT !.res = rhs]
      Receiver(h2, rhs) == Store(Visit(h2, lhs.lhs), rhs, h2.res)
      Rhs(h1) == Receiver(Visit(h1, lhs.rhs), h1.res)
  IN Rhs(Visit(h, e))

\* HIRGen::VisitReturn
HIRVisitReturn(h, e) ==
  LET Lhs(h1) == HIRReturn(h1, h1.current_block_, h1.res)
  IN Lhs(Visit(h, e))

\* HIRGen::VisitIf up to the visit of the body: t and f are the last two
\* blocks of the result
VisitIfBegin(h, e) ==
  LET t == Len(h.blocks) + 1
      f == Len(h.blocks) + 2
      Cond(h1) == [Branch(h1, h1.current_block_, t, f, h1.res) EXCEPT !.current_block_ = t]
  IN Cond(Visit(CreateBlock(CreateBlock(h)), e))

\* ... the else branch
VisitIfElse(h, f) == [h EXCEPT !.current_block_ = f]

\* ... and the join
VisitIfEnd(h, t, f) ==
  LET Joined(h1) == [h1 EXCEPT !.current_block_ = LastBlock(h1)]
  IN Joined(Join(h, t, f))

\* HIRGen::VisitWhile up to the visit of the body.  The blocks are created in
\* the order start, condition, body, loop, end.
VisitWhileBegin(h, e) ==
  LET start == Len(h.blocks) + 1
      body == start + 2
      end == start + 4
      Cond(h3) == [Branch(CreateBlock(CreateBlock(CreateBlock(h3))),
                          h3.current_block_, body, end, h3.res)
                     EXCEPT !.current_block_ = body]
      Header(h2) ==
        Cond(Visit(HIRGoto(MarkLoop(h2, start), start, h2.current_block_), e))
      PreLoop(h1) ==
        Header([CreateBlock(HIRGoto(MarkPreLoop(h1, h.current_block_, 1),
                                    h.current_block_, start))
                  EXCEPT !.current_block_ = start + 1])
  IN PreLoop(CreateBlock([h EXCEPT !.loop_depth_ = @ + 1]))

\* BreakContinueInfo::GetBreak
GetBreak(h, brk_) ==
  LET Linked(h1) == HIRGoto(h1, brk_, LastBlock(h1))
  IN Linked(CreateBlock(h))

\* ... and HIRGen::VisitWhile after the body (no continue in the body)
VisitWhileEnd(h, start, loop, end) ==
  LET Broken(h1) == [h1 EXCEPT !.current_block_ = LastBlock(h1)]
      Left(h1) == [h1 EXCEPT !.loop_depth_ = @ - 1,
                             !.blocks[end].loop_depth = h1.loop_depth_ - 1]
  IN Broken(GetBreak(Left(HIRGoto(HIRGoto(h, h.current_block_, loop), loop, start)),
                     end))

\* HIRGen::Build and HIRGen::VisitFunction of a function without arguments,
\* up to the visit of the children
VisitFunctionBegin(h) ==
  LET Root(h1) == HIRAdd([h1 EXCEPT !.current_block_ = 1], 1, "Entry", "")
  IN Root(CreateBlock(h))

\* ... and after it
VisitFunctionEnd(h) ==
  LET Val(h1) == HIRReturn(h1, h1.current_block_, h1.res)
  IN IF h.blocks[h.current_block_].ended THEN h
     ELSE Val(HIRAdd(h, h.current_block_, "Nil", ""))
\* ---------------------------------------------------------------------------
\* HIRGen::EnumerateDFS; dfs_id() is the length of the list so far
RECURSIVE EnumerateDFS(_, _), EnumerateSucc(_, _, _)
EnumerateDFS(h, b) ==
  EnumerateSucc([h EXCEPT !.blocks[b].dfs_id = Len(h.dfs_blocks_),
                          !.dfs_blocks_ = Append(@, b)], b, 1)

EnumerateSucc(h, b, i) ==
  IF i > Len(h.blocks[b].succ) THEN h
  ELSE EnumerateSucc(
         IF h.blocks[h.blocks[b].succ[i]].dfs_id # -1 THEN h
         ELSE EnumerateDFS([h EXCEPT !.blocks[h.blocks[b].succ[i]].parent = b],
                           h.blocks[b].succ[i]),
         b, i + 1)

\* dfs_id of the semidominator of the label of block v
SemiId(h, v) == h.blocks[h.blocks[h.blocks[v].label].semi].dfs_id

\* HIRBlock::Compress and HIRBlock::Evaluate: link-eval with path compression.
\* Evaluate leaves the block with the least semidominator in res.
RECURSIVE Compress(_, _)
Compress(h, v) ==
  LET a == h.blocks[v].ancestor
      Relabel(h1) ==
        [h1 EXCEPT !.blocks[v].label = IF SemiId(h1, a) < SemiId(h1, v)
                                       THEN h1.blocks[a].label ELSE @,
                   !.blocks[v].ancestor = h1.blocks[a].ancestor]
  IN IF h.blocks[a].ancestor = 0 THEN h ELSE Relabel(Compress(h, a))

Evaluate(h, v) ==
  LET Labelled(h1) == [h1 EXCEPT !.res = h1.blocks[v].label]
  IN IF h.blocks[v].ancestor = 0 THEN [h EXCEPT !.res = v] ELSE Labelled(Compress(h, v))

\* The loop over the predecessors of w in HIRGen::DeriveDominators
RECURSIVE SemiFrom(_, _, _)
\* Only the first predecessor is looked at
SemiFirst(h, w, i) ==
  LET Semi(h1) ==
        IF h1.blocks[h1.blocks[h1.res].semi].dfs_id < h1.blocks[h1.blocks[w].semi].dfs_id
        THEN [h1 EXCEPT !.blocks[w].semi = h1.blocks[h1.res].semi] ELSE h1
  IN IF h.blocks[w].pred = <<>> \/ h.blocks[h.blocks[w].pred[1]].dfs_id = -1 THEN h
     ELSE Semi(Evaluate(h, h.blocks[w].pred[1]))

SemiFrom(h, w, i) ==
  LET Semi(h1) ==
        IF h1.blocks[h1.blocks[h1.res].semi].dfs_id < h1.blocks[h1.blocks[w].semi].dfs_id
        THEN [h1 EXCEPT !.blocks[w].semi = h1.blocks[h1.res].semi] ELSE h1
  IN IF i > Len(h.blocks[w].pred) THEN h
     ELSE SemiFrom(IF h.blocks[h.blocks[w].pred[i]].dfs_id = -1 THEN h
                   ELSE Semi(Evaluate(h, h.blocks[w].pred[i])), w, i + 1)

\* ... the loop that empties the bucket of the parent
RECURSIVE Bucket(_, _)
Bucket(h, parent) ==
  LET v == Head(h.blocks[parent].dominates)
      Dom(h1) ==
        [h1 EXCEPT !.blocks[v].dominator =
           IF h1.blocks[h1.blocks[h1.res].semi].dfs_id < h1.blocks[h1.blocks[v].semi].dfs_id
           THEN h1.res ELSE parent]
  IN IF h.blocks[parent].dominates = <<>> THEN h
     ELSE Bucket(Dom(Evaluate([h EXCEPT !.blocks[parent].dominates = Tail(@)], v)),
                 parent)

\* ... the loop over the blocks in reverse DFS order, the root left out
RECURSIVE SemiDominators(_, _)
SemiDominators(h, k) ==
  LET w == h.dfs_blocks_[k]
      Linked(h1) ==
        Bucket([h1 EXCEPT !.blocks[h1.blocks[w].semi].dominates = Append(@, w),
                          !.blocks[w].ancestor = h1.blocks[w].parent],
               h1.blocks[w].parent)
  IN IF k < 2 \/ h.err # "" THEN h ELSE SemiDominators(Linked(SemiFrom(h, w, 1)), k - 1)

\* ... and the last sweep in DFS order
RECURSIVE Dominators(_, _)
Dominators(h, k) ==
  LET w == h.dfs_blocks_[k]
      Child(h1) ==
        IF h1.err # "" THEN h1
        ELSE IF h1.blocks[w].dominator = 0 THEN HIRFail(h1, "DeriveDominators: NULL")
        ELSE [h1 EXCEPT !.blocks[h1.blocks[w].dominator].dominates = <<w>>]
      Real(h1) ==
        IF h1.blocks[w].dominator = h1.blocks[w].semi THEN h1
        ELSE IF h1.blocks[w].dominator = 0 THEN HIRFail(h1, "DeriveDominators: assert")
        ELSE [h1 EXCEPT !.blocks[w].dominator = h1.blocks[@].dominator]
  IN IF k > Len(h.dfs_blocks_) \/ h.err # "" THEN h
     ELSE Dominators(Child(Real(h)), k + 1)

\* HIRGen::DeriveDominators of the one root of the function
DeriveDominators(h) ==
  LET Swept(h1) == Dominators(SemiDominators(h1, Len(h1.dfs_blocks_)), 2)
  IN Swept(EnumerateDFS(h, 1))
\* ---------------------------------------------------------------------------
\* HIRPhi::Nilify: the phi becomes a nil
Nilify(h, p) == [h EXCEPT !.instrs[p].kind = "Nil"]

\* The uses of a phi that HIRGen::PrunePhis puts on its queue
PhiUses(h, p) ==
  SelectSeq(h.instrs[p].uses,
            LAMBDA u : ~h.instrs[u].removed /\ h.instrs[u].kind = "Phi")

\* The loop over queue_ of HIRGen::PrunePhis; the queue grows as it is walked
RECURSIVE PruneQueue(_, _, _)
PruneQueue(h, queue_, k) ==
  LET p == queue_[k]
      Trivial ==
        InputAt(h, p, 1) = p \/ InputAt(h, p, 0) = InputAt(h, p, 1)
      Single(h1) == BlockRemove(Replace(h1, p, InputAt(h1, p, 0)), p)
      Pruned(h1) ==
        IF h1.instrs[p].input_count = 0 THEN PruneQueue(Unpin(Nilify(h1, p), p), queue_, k + 1)
        ELSE IF h1.instrs[p].input_count = 1
        THEN PruneQueue(Single(h1), queue_ \o PhiUses(h1, p), k + 1)
        ELSE PruneQueue(h1, queue_, k + 1)
  IN IF k > Len(queue_) \/ h.err # "" THEN h
     ELSE IF h.instrs[p].input_count = 2
     THEN IF ~Trivial THEN PruneQueue(h, queue_, k + 1)
          ELSE Pruned([h EXCEPT !.instrs[p].input_count = 1])
     ELSE Pruned(h)

\* ... and the loop that puts the phis back into their blocks
RECURSIVE PutBack(_, _, _), PutBackAll(_, _, _)
\* Every phi goes back, the replaced and the niled ones too
PutBackAll(h, phis_, k) ==
  IF k > Len(phis_) \/ h.err # "" THEN h
  ELSE PutBackAll([h EXCEPT !.blocks[h.instrs[phis_[k]].block].phis = Append(@, phis_[k])],
                  phis_, k + 1)

PutBack(h, phis_, k) ==
  LET p == phis_[k]
  IN IF k > Len(phis_) \/ h.err # "" THEN h
     ELSE PutBack(
            IF h.instrs[p].kind # "Phi" \/ h.instrs[p].removed THEN h
            ELSE IF h.instrs[p].uses = <<>> THEN BlockRemove(h, p)
            ELSE [h EXCEPT !.blocks[h.instrs[p].block].phis = Append(@, p)],
            phis_, k + 1)

\* The concatenation of the lists f[1], ..., f[n]
RECURSIVE Concat(_, _)
Concat(f, n) == IF n = 0 THEN <<>> ELSE Concat(f, n - 1) \o f[n]

\* HIRGen::PrunePhis
PrunePhis(h) ==
  LET AllPhis == Concat([b \in 1 .. Len(h.blocks) |-> h.blocks[b].phis], Len(h.blocks))
      Emptied == [h EXCEPT !.blocks = [b \in 1 .. Len(h.blocks) |->
                                         [h.blocks[b] EXCEPT !.phis = <<>>]]]
      Back(h1) == PutBack(h1, AllPhis, 1)
  IN Back(PruneQueue(Emptied, AllPhis, 1))
\* ---------------------------------------------------------------------------
\* HIRInstruction::HasSideEffects, for the kinds of the functions compiled
HasSideEffects(instr) ==
  instr.kind \in {"Entry", "Return", "Goto", "If", "Call", "StoreArg", "StoreVarArg",
                  "StoreProperty", "DeleteProperty", "AlignStack"}

\* HIRGen::EliminateDeadCode(instr): the marking of the live instructions
RECURSIVE MarkLive(_, _), MarkArgs(_, _, _)
\* Only the instruction itself is marked
MarkLiveShallow(h, i) == [h EXCEPT !.instrs[i].is_live = TRUE]

MarkLive(h, i) ==
  IF h.instrs[i].is_live THEN h
  ELSE MarkArgs([h EXCEPT !.instrs[i].is_live = TRUE], i, 1)

MarkArgs(h, i, k) ==
  IF k > Len(h.instrs[i].args) THEN h
  ELSE MarkArgs(MarkLive(h, h.instrs[i].args[k]), i, k + 1)

RECURSIVE MarkRoots(_, _, _)
MarkRoots(h, instructions_, k) ==
  IF k > Len(instructions_) \/ h.err # "" THEN h
  ELSE MarkRoots(IF HasSideEffects(h.instrs[instructions_[k]])
                 THEN MarkLive(h, instructions_[k]) ELSE h,
                 instructions_, k + 1)

\* The live instructions of the list, pushed back in the order of the list
RECURSIVE PushLive(_, _, _), UnshiftLive(_, _, _)
\* The live instructions are put at the front of the list of their block
UnshiftLive(h, instructions_, k) ==
  IF k > Len(instructions_) \/ h.err # "" THEN h
  ELSE UnshiftLive(IF ~h.instrs[instructions_[k]].is_live THEN h
                   ELSE [h EXCEPT !.blocks[h.instrs[instructions_[k]].block].instructions =
                                    Unshift(@, instructions_[k])],
                   instructions_, k + 1)

PushLive(h, instructions_, k) ==
  IF k > Len(instructions_) \/ h.err # "" THEN h
  ELSE PushLive(IF ~h.instrs[instructions_[k]].is_live THEN h
                ELSE [h EXCEPT !.blocks[h.instrs[instructions_[k]].block].instructions =
                                 Append(@, instructions_[k])],
                instructions_, k + 1)

\* HIRGen::EliminateDeadCode()
EliminateDeadCode(h) ==
  LET All == Concat([b \in 1 .. Len(h.blocks) |-> h.blocks[b].instructions],
                    Len(h.blocks))
      Emptied == [h EXCEPT !.blocks = [b \in 1 .. Len(h.blocks) |->
                                         [h.blocks[b] EXCEPT !.instructions = <<>>]]]
      Filtered(h1) == PushLive(h1, All, 1)
  IN Filtered(MarkRoots(Emptied, All, 1))

\* ---------------------------------------------------------------------------
\* The key of an instruction in HIRGVNMap: kind, payload and arguments
GVNKey(instr) == <<instr.kind, instr.val, instr.args>>

\* HIRGVNMap::Get: the instruction kept under the key of i, 0 if there is none
GVNGet(h, i) ==
  IF \E k \in 1 .. Len(h.gvn) : h.gvn[k][1] = GVNKey(h.instrs[i])
  THEN (CHOOSE e \in SeqSet(h.gvn) : e[1] = GVNKey(h.instrs[i]))[2]
  ELSE 0

\* HIRInstruction::HasGVNSideEffects
HasGVNSideEffects(instr) == HasSideEffects(instr)

\* HIRGen::GlobalValueNumbering(instr, gvn)
RECURSIVE NumberValue(_, _), NumberArgs(_, _, _)
NumberValue(h, i) ==
  LET Hit(h1, copy) ==
        IF copy # 0 THEN BlockRemove(Replace(h1, i, copy), i)
        ELSE [h1 EXCEPT !.gvn = Append(@, <<GVNKey(h1.instrs[i]), i>>)]
      Numbered(h1) == Hit(h1, GVNGet(h1, i))
  IN IF h.instrs[i].gvn_visited THEN h
     ELSE IF HasGVNSideEffects(h.instrs[i])
     THEN [h EXCEPT !.instrs[i].gvn_visited = TRUE]
     ELSE Numbered(NumberArgs([h EXCEPT !.instrs[i].gvn_visited = TRUE], i, 1))

NumberArgs(h, i, k) ==
  IF k > Len(h.instrs[i].args) THEN h
  ELSE NumberArgs(NumberValue(h, h.instrs[i].args[k]), i, k + 1)

\* The loop over the instructions of a block: an instruction that has been
\* removed in the meantime is no more in the list
RECURSIVE NumberBlock(_, _, _)
NumberBlock(h, instructions_, k) ==
  IF k > Len(instructions_) \/ h.err # "" THEN h
  ELSE NumberBlock(IF h.instrs[instructions_[k]].removed THEN h
                   ELSE NumberValue(h, instructions_[k]),
                   instructions_, k + 1)

RECURSIVE NumberBlocks(_, _)
NumberBlocks(h, b) ==
  IF b > Len(h.blocks) THEN h
  ELSE NumberBlocks(NumberBlock(h, h.blocks[b].instructions, 1), b + 1)

\* HIRGen::GlobalValueNumbering(): one root, one map
GlobalValueNumbering(h) == NumberBlocks([h EXCEPT !.gvn = <<>>], 1)
\* ---------------------------------------------------------------------------
\* HIRGen::FindReachableBlocks: reachable_from of the successor takes the block
\* and what the block is reachable from; the sweep over the blocks is repeated
\* while a copy changed a set
RECURSIVE ReachSweep(_, _, _)
ReachSweep(st, b, i) ==
  LET s == st.h.blocks[b].succ[i]
      more == st.h.blocks[b].reachable_from \ (st.h.blocks[s].reachable_from \cup {b})
  IN IF b > Len(st.h.blocks) THEN st
     ELSE IF i > Len(st.h.blocks[b].succ) THEN ReachSweep(st, b + 1, 1)
     ELSE ReachSweep([h |-> [st.h EXCEPT !.blocks[s].reachable_from =
                                (@ \cup {b}) \cup st.h.blocks[b].reachable_from],
                      change |-> st.change \/ more # {}], b, i + 1)

RECURSIVE FindReachableBlocks(_)
FindReachableBlocks(h) ==
  LET Again(st) == IF st.change THEN FindReachableBlocks(st.h) ELSE st.h
  IN Again(ReachSweep([h |-> h, change |-> FALSE], 1, 1))

\* The instructions of the lists of the blocks, block after block
ListedInstructions(h) == Concat([b \in 1 .. Len(h.blocks) |-> h.blocks[b].instructions],
                                Len(h.blocks))

\* HIRInstruction::Effects: a phi effects its inputs, an instruction with side
\* effects its arguments
Effects(h, use, instr) == h.instrs[use].kind = "Phi" \/ HasSideEffects(h.instrs[use])

\* The effects of `from` that `into` does not hold join the end of `into`
RECURSIVE PushNew(_, _, _)
PushNew(into, from, k) ==
  IF k > Len(from) THEN into
  ELSE PushNew(IF from[k] \in SeqSet(into) THEN into ELSE Append(into, from[k]),
               from, k + 1)

\* HIRGen::FindOutEffects
RECURSIVE FindOutEffects(_, _), OutEffectsOfUses(_, _, _)
FindOutEffects(h, i) ==
  IF h.instrs[i].alias_visited = 1 THEN h
  ELSE OutEffectsOfUses([h EXCEPT !.instrs[i].alias_visited = 1], i, 1)

OutEffectsOfUses(h, i, k) ==
  LET use == h.instrs[i].uses[k]
      Own(h1) == IF Effects(h1, use, i)
                 THEN [h1 EXCEPT !.instrs[i].effects_out = PushNew(@, <<use>>, 1)]
                 ELSE h1
      Copy(h1) ==
        Own([h1 EXCEPT !.instrs[i].effects_out =
                          PushNew(@, h1.instrs[use].effects_out, 1)])
  IN IF k > Len(h.instrs[i].uses) THEN h
     ELSE OutEffectsOfUses(Copy(FindOutEffects(h, use)), i, k + 1)

\* HIRGen::FindInEffects: the effects of the arguments that are upstream of
\* the instruction
RECURSIVE FindInEffects(_, _), InEffectsOfArgs(_, _, _)
FindInEffects(h, i) ==
  IF h.instrs[i].alias_visited = 2 THEN h
  ELSE InEffectsOfArgs([h EXCEPT !.instrs[i].alias_visited = 2], i, 1)

InEffectsOfArgs(h, i, k) ==
  LET arg == h.instrs[i].args[k]
      Upstream(h1, effect) ==
        \/ h1.instrs[effect].block \in h1.blocks[h1.instrs[i].block].reachable_from
        \/ h1.instrs[i].block = h1.instrs[effect].block /\ effect < i
      Taken(h1) ==
        [h1 EXCEPT !.instrs[i].effects_in =
           PushNew(@, SelectSeq(h1.instrs[arg].effects_out,
                                LAMBDA effect : Upstream(h1, effect)), 1)]
  IN IF k > Len(h.instrs[i].args) THEN h
     ELSE InEffectsOfArgs(Taken(FindInEffects(h, arg)), i, k + 1)

\* HIRGen::FindEffects: the out effects of every listed instruction, then the
\* in effects
RECURSIVE FindEffectsFrom(_, _, _, _, _)
FindEffectsFrom(h, list, lo, hi, out) ==
  IF h.err # "" \/ lo > hi THEN h
  ELSE IF lo < hi
  THEN FindEffectsFrom(FindEffectsFrom(h, list, lo, (lo + hi) \div 2, out), list,
                       (lo + hi) \div 2 + 1, hi, out)
  ELSE IF out THEN FindOutEffects(h, list[lo])
  ELSE FindInEffects(h, list[lo])

FindEffects(h) ==
  LET From(h1, list, out) == FindEffectsFrom(h1, list, 1, Len(list), out)
      In(h1) == From(h1, ListedInstructions(h1), FALSE)
  IN In(From(h, ListedInstructions(h), TRUE))
\* ---------------------------------------------------------------------------
\* HIRBlock::dominator_depth of a block of h
RECURSIVE DepthIn(_, _, _)
DepthIn(h, b, fuel) ==
  LET Deeper(up) == IF up = -1 THEN -1 ELSE up + 1
  IN IF h.blocks[b].dominator = 0 THEN 0
     ELSE IF fuel = 0 THEN -1
     ELSE Deeper(DepthIn(h, h.blocks[b].dominator, fuel - 1))

DominatorDepth(h, b) == DepthIn(h, b, Len(h.blocks))

\* HIRGen::FindLCA; 0 is NULL, -1 the read of a NULL block
RECURSIVE LiftTo(_, _, _), LiftBoth(_, _, _)
LiftTo(h, a, depth) ==
  IF a = 0 \/ DominatorDepth(h, a) <= depth THEN a
  ELSE LiftTo(h, h.blocks[a].dominator, depth)

LiftBoth(h, a, b) ==
  IF a = b THEN a
  ELSE IF a = 0 \/ b = 0 THEN -1
  ELSE LiftBoth(h, h.blocks[a].dominator, h.blocks[b].dominator)

FindLCA(h, a, b) ==
  IF a = 0 THEN b
  ELSE IF b = 0 THEN -1
  ELSE LiftBoth(h, LiftTo(h, a, DominatorDepth(h, b)), LiftTo(h, b, DominatorDepth(h, a)))

\* HIRGen::ScheduleEarly
RECURSIVE ScheduleEarly(_, _, _), EarlyArgs(_, _, _, _)
ScheduleEarly(h, i, root) ==
  LET Start(h1) ==
        IF h1.instrs[i].effects_in = <<>> THEN [h1 EXCEPT !.instrs[i].block = root]
        ELSE h1
      Visited(h1) ==
        IF h1.instrs[i].pinned THEN h1 ELSE EarlyArgs(Start(h1), i, 1, root)
  IN IF h.instrs[i].gcm_visited # 0 THEN h
     ELSE Visited([h EXCEPT !.instrs[i].gcm_visited = 1])

EarlyArgs(h, i, k, root) ==
  LET arg == h.instrs[i].args[k]
      Deepest(h1) ==
        IF DominatorDepth(h1, h1.instrs[i].block) < DominatorDepth(h1, h1.instrs[arg].block)
        THEN [h1 EXCEPT !.instrs[i].block = h1.instrs[arg].block]
        ELSE h1
  IN IF k > Len(h.instrs[i].args) THEN h
     ELSE EarlyArgs(Deepest(ScheduleEarly(h, arg, root)), i, k + 1, root)

\* HIRPhi::InputAt and HIRBlock::PredAt, 0 where there is none
InputOrNull(h, p, j) ==
  IF j + 1 <= Len(h.instrs[p].args) THEN InputAt(h, p, j) ELSE 0

PredAt(h, b, j) == IF j + 1 <= Len(h.blocks[b].pred) THEN h.blocks[b].pred[j + 1] ELSE 0

\* HIRGen::ScheduleLate: the walk from the common ancestor of the uses up the
\* dominators to the block of the instruction
RECURSIVE SelectBest(_, _, _, _)
SelectBest(h, i, lca, best) ==
  LET up == h.blocks[lca].dominator
      Better(b) == IF h.blocks[b].loop_depth < h.blocks[best].loop_depth THEN b ELSE best
  IN IF lca = h.instrs[i].block \/ up = 0 THEN best
     ELSE IF h.instrs[i].block \notin h.blocks[up].reachable_from /\ up # h.instrs[i].block
     THEN best
     ELSE SelectBest(h, i, up, Better(up))

RECURSIVE ScheduleLate(_, _), LateUses(_, _, _)
ScheduleLate(h, i) ==
  LET Placed(st) ==
        IF st.h.err # "" THEN st.h
        ELSE IF st.lca = 0
        THEN [st.h EXCEPT !.instrs[i].block =
                SelectBest(st.h, i, st.h.instrs[i].block, st.h.instrs[i].block)]
        ELSE [st.h EXCEPT !.instrs[i].block = SelectBest(st.h, i, st.lca, st.lca)]
      Visited(h1) ==
        IF h1.instrs[i].pinned THEN h1 ELSE Placed(LateUses([h |-> h1, lca |-> 0], i, 1))
  IN IF h.instrs[i].gcm_visited = 2 \/ h.err # "" THEN h
     ELSE Visited([h EXCEPT !.instrs[i].gcm_visited = 2])

LateUses(st, i, k) ==
  LET use == st.h.instrs[i].uses[k]
      UseBlock(h1) ==
        IF h1.instrs[use].kind = "Phi"
        THEN PredAt(h1, h1.instrs[use].block, IF InputOrNull(h1, use, 0) = i THEN 0 ELSE 1)
        ELSE h1.instrs[use].block
      Found(h1, lca) ==
        IF lca = -1 THEN [h |-> HIRFail(h1, "FindLCA: NULL"), lca |-> 0]
        ELSE [h |-> h1, lca |-> lca]
      Used(h1) == IF h1.err # "" THEN [h |-> h1, lca |-> 0]
                  ELSE Found(h1, FindLCA(h1, st.lca, UseBlock(h1)))
  IN IF k > Len(st.h.instrs[i].uses) \/ st.h.err # "" THEN st
     ELSE LateUses(Used(ScheduleLate(st.h, use)), i, k + 1)

\* HIRGen::GlobalCodeMotion: the second inputs of the phis of the loops are
\* pinned ...
RECURSIVE PinLoopInputs(_, _, _)
PinLoopInputs(h, b, k) ==
  LET p == h.blocks[b].phis[k]
  IN IF b > Len(h.blocks) \/ h.err # "" THEN h
     ELSE IF ~h.blocks[b].loop \/ k > Len(h.blocks[b].phis) THEN PinLoopInputs(h, b + 1, 1)
     ELSE IF InputOrNull(h, p, 1) = 0 THEN HIRFail(h, "GlobalCodeMotion: NULL")
     ELSE PinLoopInputs(Pin(h, InputOrNull(h, p, 1)), b, k + 1)

\* ... the lists of the blocks are emptied into one list and the arguments of
\* the pinned instructions are scheduled early ...
RECURSIVE EarlyEach(_, _, _, _)
EarlyEach(h, i, k, root) ==
  IF k > Len(h.instrs[i].args) THEN h
  ELSE EarlyEach(ScheduleEarly(h, h.instrs[i].args[k], root), i, k + 1, root)

\* (the loops over the list take list[lo .. hi] in the order of the list, one
\* half after the other)
RECURSIVE EarlyPinned(_, _, _, _)
EarlyPinned(h, list, lo, hi) ==
  IF h.err # "" \/ lo > hi THEN h
  ELSE IF lo < hi
  THEN EarlyPinned(EarlyPinned(h, list, lo, (lo + hi) \div 2), list,
                   (lo + hi) \div 2 + 1, hi)
  ELSE IF ~h.instrs[list[lo]].pinned THEN h
  ELSE EarlyEach([h EXCEPT !.instrs[list[lo]].gcm_visited = 1], list[lo], 1, 1)

\* ... then the instructions that are neither pinned nor scheduled ...
RECURSIVE EarlyOthers(_, _, _, _)
EarlyOthers(h, list, lo, hi) ==
  IF h.err # "" \/ lo > hi THEN h
  ELSE IF lo < hi
  THEN EarlyOthers(EarlyOthers(h, list, lo, (lo + hi) \div 2), list,
                   (lo + hi) \div 2 + 1, hi)
  ELSE IF h.instrs[list[lo]].pinned \/ h.instrs[list[lo]].gcm_visited = 1 THEN h
  ELSE ScheduleEarly(h, list[lo], 1)

\* ... the uses of the pinned instructions are scheduled late ...
RECURSIVE LateEach(_, _, _)
LateEach(h, i, k) ==
  IF k > Len(h.instrs[i].uses) THEN h
  ELSE LateEach(ScheduleLate(h, h.instrs[i].uses[k]), i, k + 1)

RECURSIVE LatePinned(_, _, _, _)
LatePinned(h, list, lo, hi) ==
  IF h.err # "" \/ lo > hi THEN h
  ELSE IF lo < hi
  THEN LatePinned(LatePinned(h, list, lo, (lo + hi) \div 2), list,
                  (lo + hi) \div 2 + 1, hi)
  ELSE IF ~h.instrs[list[lo]].pinned THEN h
  ELSE LateEach([h EXCEPT !.instrs[list[lo]].gcm_visited = 2], list[lo], 1)

\* ... then the others ...
RECURSIVE LateOthers(_, _, _, _)
LateOthers(h, list, lo, hi) ==
  IF h.err # "" \/ lo > hi THEN h
  ELSE IF lo < hi
  THEN LateOthers(LateOthers(h, list, lo, (lo + hi) \div 2), list,
                  (lo + hi) \div 2 + 1, hi)
  ELSE IF h.instrs[list[lo]].pinned \/ h.instrs[list[lo]].gcm_visited = 2 THEN h
  ELSE ScheduleLate(h, list[lo])

\* ... and the instructions are put back from the tail of the list: a Goto, If
\* or Return at the end of the list of its block, another one at its head
IsControl(instr) == instr.kind \in {"Goto", "If", "Return"}

RECURSIVE PutBackInstructions(_, _, _, _)
PutBackInstructions(h, list, lo, hi) ==
  IF h.err # "" \/ lo > hi THEN h
  ELSE IF lo < hi
  THEN PutBackInstructions(PutBackInstructions(h, list, (lo + hi) \div 2 + 1, hi),
                           list, lo, (lo + hi) \div 2)
  ELSE [h EXCEPT !.blocks[h.instrs[list[lo]].block].instructions =
          IF IsControl(h.instrs[list[lo]]) THEN Append(@, list[lo])
          ELSE Unshift(@, list[lo])]

RECURSIVE ShiftAll(_, _)
ShiftAll(h, b) ==
  IF b > Len(h.blocks) THEN h
  ELSE ShiftAll([h EXCEPT !.blocks[b].instructions = <<>>], b + 1)

GlobalCodeMotion(h) ==
  LET n(list) == Len(list)
      Back(h1, list) == PutBackInstructions(h1, list, 1, n(list))
      Late(h1, list) ==
        Back(LateOthers(LatePinned(h1, list, 1, n(list)), list, 1, n(list)), list)
      Early(h1, list) ==
        Late(EarlyOthers(EarlyPinned(h1, list, 1, n(list)), list, 1, n(list)), list)
      Scheduled(h1, list) == Early(ShiftAll(h1, 1), list)
      Pinned(h1) == IF h1.err # "" THEN h1 ELSE Scheduled(h1, ListedInstructions(h1))
  IN Pinned(PinLoopInputs(h, 1, 1))
\* ===========================================================================
\* The compilation of one function by HIRGen::Build.  The function is drawn
\* statement by statement: open holds the if and while statements whose body
\* is being visited, innermost last.  A frame of an if statement holds the
\* block that ended the first branch (a, 0 while that branch is visited) and
\* the block of the else branch (b); a frame of a while statement holds the
\* blocks start (a), loop (b) and end (c).
Frame(kind, a, b, c) == [kind |-> kind, a |-> a, b |-> b, c |-> c]

Top == open[Len(open)]

Pop == SubSeq(open, 1, Len(open) - 1)

\* A statement can be visited
Visiting == hpc = "body" /\ hgen.err = "" /\ nstmts < MaxStmts

\* ... and the block it is visited in has not ended
Running == Visiting /\ ~hgen.blocks[hgen.current_block_].ended

InitHIR ==
  /\ hgen = NewHIRGen
  /\ hpc = "idle"
  /\ open = <<>>
  /\ nstmts = 0
  /\ src = <<>>
  /\ shape = "line"
  /\ hasphi = FALSE
  /\ lgen = NewLGen(HIRBlocks("line"))
  /\ pc = "flatten"
  /\ bi = 0
  /\ vals = <<>>
  /\ saved = [b \in DOMAIN HIRBlocks("line") |-> <<>>]
  /\ phi = [interval |-> 0, first |-> 0]
  /\ nops = 0
  /\ nargs = 0
  /\ idx = 0
  /\ work_queue = <<>> /\ visits = <<>>

\* HIRGen::Build up to the visit of the body of the function
BuildStart ==
  /\ hpc = "idle"
  /\ hgen' = VisitFunctionBegin(hgen)
  /\ hpc' = "body"
  /\ UNCHANGED <<lirvars, flatvars, open, nstmts, src>>

\* The right sides of the assignments to a slot: a literal, the sum of the
\* slot and the first slot and, for another slot than the first, the value of
\* the first slot
AssignExprs(slot) ==
  {e \in Exprs : \/ e.k = "literal"
                 \/ e.k = "value" /\ e.slot = 1 /\ slot # 1
                 \/ e.k = "binop" /\ e.lhs = slot /\ e.rhs = 1}

\* The expression that is read by the conditions and returned: the value of
\* the first slot
CondExpr == [k |-> "value", slot |-> 1]

\* slot = expression
StmtAssign ==
  /\ Running
  /\ \E slot \in Slots : \E e \in AssignExprs(slot) : hgen' = VisitAssign(hgen, slot, e)
  /\ nstmts' = nstmts + 1
  /\ UNCHANGED <<lirvars, flatvars, hpc, open, src>>

\* return the first slot
StmtReturn ==
  /\ Running
  /\ hgen' = HIRVisitReturn(hgen, CondExpr)
  /\ nstmts' = nstmts + 1
  /\ UNCHANGED <<lirvars, flatvars, hpc, open, src>>

\* A statement that follows a return in its block: HIRGen::Visit adds a nil
StmtSkipped ==
  /\ Visiting
  /\ hgen.blocks[hgen.current_block_].ended
  /\ hgen' = Visit(hgen, [k |-> "literal", val |-> "1"])
  /\ nstmts' = nstmts + 1
  /\ UNCHANGED <<lirvars, flatvars, hpc, open, src>>

\* if (condition) {
StmtIf ==
  /\ Running
  /\ hgen' = VisitIfBegin(hgen, CondExpr)
  /\ open' = Append(open, Frame("if", 0, Len(hgen.blocks) + 2, 0))
  /\ nstmts' = nstmts + 1
  /\ UNCHANGED <<lirvars, flatvars, hpc, src>>

\* } else {
StmtElse ==
  /\ hpc = "body" /\ hgen.err = ""
  /\ open # <<>> /\ Top.kind = "if" /\ Top.a = 0
  /\ hgen' = VisitIfElse(hgen, Top.b)
  /\ open' = Append(Pop, Frame("if", hgen.current_block_, Top.b, 0))
  /\ UNCHANGED <<lirvars, flatvars, hpc, nstmts, src>>

\* } of an if statement
StmtEndIf ==
  /\ hpc = "body" /\ hgen.err = ""
  /\ open # <<>> /\ Top.kind = "if"
  /\ hgen' = IF Top.a = 0 THEN VisitIfEnd(hgen, hgen.current_block_, Top.b)
             ELSE VisitIfEnd(hgen, Top.a, hgen.current_block_)
  /\ open' = Pop
  /\ UNCHANGED <<lirvars, flatvars, hpc, nstmts, src>>

\* while (condition) {
StmtWhile ==
  /\ Running
  /\ hgen' = VisitWhileBegin(hgen, CondExpr)
  /\ open' = Append(open, Frame("while", Len(hgen.blocks) + 1, Len(hgen.blocks) + 4,
                                Len(hgen.blocks) + 5))
  /\ nstmts' = nstmts + 1
  /\ UNCHANGED <<lirvars, flatvars, hpc, src>>

\* } of a while statement
StmtEndWhile ==
  /\ hpc = "body" /\ hgen.err = ""
  /\ open # <<>> /\ Top.kind = "while"
  /\ hgen' = VisitWhileEnd(hgen, Top.a, Top.b, Top.c)
  /\ open' = Pop
  /\ UNCHANGED <<lirvars, flatvars, hpc, nstmts, src>>

\* The end of the function: HIRGen::VisitFunction after the children
BuildEnd ==
  /\ hpc = "body" /\ hgen.err = "" /\ open = <<>>
  /\ hgen' = VisitFunctionEnd(hgen)
  /\ hpc' = "built"
  /\ UNCHANGED <<lirvars, flatvars, open, nstmts, src>>

\* The passes of HIRGen::Build, in its order
PassReachable ==
  /\ hpc = "built" /\ hgen.err = ""
  /\ hgen' = FindReachableBlocks(hgen)
  /\ hpc' = "reachable"
  /\ UNCHANGED <<lirvars, flatvars, open, nstmts, src>>

PassDominators ==
  /\ hpc = "reachable" /\ hgen.err = ""
  /\ hgen' = DeriveDominators(hgen)
  /\ hpc' = "dominators"
  /\ UNCHANGED <<lirvars, flatvars, open, nstmts, src>>

PassPrunePhis ==
  /\ hpc = "dominators" /\ hgen.err = ""
  /\ hgen' = PrunePhis(hgen)
  /\ hpc' = "pruned"
  /\ UNCHANGED <<lirvars, flatvars, open, nstmts, src>>

PassEffects ==
  /\ hpc = "pruned" /\ hgen.err = ""
  /\ hgen' = FindEffects(hgen)
  /\ hpc' = "effects"
  /\ UNCHANGED <<lirvars, flatvars, open, nstmts, src>>

PassDCE ==
  /\ hpc = "effects" /\ hgen.err = ""
  /\ hgen' = EliminateDeadCode(hgen)
  /\ hpc' = "dce"
  /\ UNCHANGED <<lirvars, flatvars, open, nstmts, src>>

PassGVN ==
  /\ hpc = "dce" /\ hgen.err = ""
  /\ hgen' = GlobalValueNumbering(hgen)
  /\ hpc' = "done"
  /\ UNCHANGED <<lirvars, flatvars, open, nstmts, src>>

PassGCM ==
  /\ hpc = "done" /\ hgen.err = ""
  /\ hgen' = GlobalCodeMotion(hgen)
  /\ hpc' = "scheduled"
  /\ UNCHANGED <<lirvars, flatvars, open, nstmts, src>>

NextHIR ==
  \/ BuildStart \/ StmtAssign \/ StmtReturn \/ StmtSkipped
  \/ StmtIf \/ StmtElse \/ StmtEndIf \/ StmtWhile \/ StmtEndWhile \/ BuildEnd
  \/ PassReachable \/ PassDominators \/ PassPrunePhis \/ PassEffects \/ PassDCE
  \/ PassGVN \/ PassGCM

SpecHIR == InitHIR /\ [][NextHIR]_vars

\* No assert of the builder or of the passes fails
HIRNoAssert == hgen.err = ""
\* ===========================================================================
\* The compilation of a function without control flow statements, whose
\* expressions are short-circuit operations, calls and property accesses of
\* the first slot.  src holds the statements of such a function that have been
\* visited: the kind of the statement, the left side of an assignment and the
\* expression of the statement.
Nothing == [k |-> "nil"]

Statement(s, lhs, e) == [s |-> s, lhs |-> lhs, e |-> e]

\* Largest number of arguments of a call, the receiver not counted
MaxCallArgs == 2

Atoms == {[k |-> "literal", val |-> "1"], [k |-> "value", slot |-> 1]}

\* a && b and a || b
Logic(as, bs) == {[k |-> o, lhs |-> a, rhs |-> b] : o \in {"and", "or"}, a \in as, b \in bs}

LogicExprs ==
  Logic(Atoms, Atoms) \cup Logic(Logic(Atoms, Atoms), Atoms) \cup Logic(Atoms, Logic(Atoms, Atoms))

\* a.b
Member ==
  [k |-> "member", lhs |-> [k |-> "value", slot |-> 1], rhs |-> [k |-> "literal", val |-> "b"]]

\* The arguments of the calls: n expressions, the v-th of them spread (v = 0:
\* none), after `self` in a call of a method
ArgExprs == Atoms \cup {[k |-> "and", lhs |-> [k |-> "value", slot |-> 1],
                         rhs |-> [k |-> "literal", val |-> "1"]]}

Args(self, as, v) ==
  (IF self THEN <<[k |-> "self"]>> ELSE <<>>)
    \o [i \in 1 .. Len(as) |-> IF i = v THEN [k |-> "vararg", lhs |-> as[i]] ELSE as[i]]

\* {}
Object == [k |-> "object", keys |-> <<>>, values |-> <<>>]

\* The functions called: a(...), a.b(...), a:b(...) and {}:b(...), the last
\* two with `self` as first argument
Callees ==
  {[variable |-> [k |-> "value", slot |-> 1], self |-> FALSE],
   [variable |-> Member, self |-> FALSE],
   [variable |-> Member, self |-> TRUE],
   [variable |-> [Member EXCEPT !.lhs = Object], self |-> TRUE]}

Calls ==
  {[k |-> "call", variable |-> c.variable, args |-> Args(c.self, as, v)] :
     c \in Callees,
     <<as, v>> \in UNION {[1 .. n -> ArgExprs] \X (0 .. n) : n \in 0 .. MaxCallArgs}}

ReturnExprs == LogicExprs \cup Calls \cup {Member, [k |-> "value", slot |-> 1]}

\* a = 0 and a = {}
ExprAssign ==
  /\ Running
  /\ \E e \in {[k |-> "literal", val |-> "0"], Object} :
       /\ hgen' = VisitAssign(hgen, 1, e)
       /\ src' = Append(src, Statement("assign", [k |-> "value", slot |-> 1], e))
  /\ nstmts' = nstmts + 1
  /\ UNCHANGED <<lirvars, flatvars, hpc, open>>

\* a.b = 1
ExprAssignMember ==
  /\ Running
  /\ hgen' = VisitAssignMember(hgen, Member, [k |-> "literal", val |-> "1"])
  /\ nstmts' = nstmts + 1
  /\ src' = Append(src, Statement("assign", Member, [k |-> "literal", val |-> "1"]))
  /\ UNCHANGED <<lirvars, flatvars, hpc, open>>

\* delete a.b
ExprDelete ==
  /\ Running
  /\ hgen' = Visit(hgen, [k |-> "delete", lhs |-> Member])
  /\ nstmts' = nstmts + 1
  /\ src' = Append(src, Statement("expression", Nothing, [k |-> "delete", lhs |-> Member]))
  /\ UNCHANGED <<lirvars, flatvars, hpc, open>>

\* return expression
ExprReturn ==
  /\ Running
  /\ \E e \in ReturnExprs :
       /\ hgen' = HIRVisitReturn(hgen, e)
       /\ src' = Append(src, Statement("return", Nothing, e))
  /\ nstmts' = nstmts + 1
  /\ UNCHANGED <<lirvars, flatvars, hpc, open>>

NextExpr ==
  \/ BuildStart \/ ExprAssign \/ ExprAssignMember \/ ExprDelete \/ ExprReturn \/ BuildEnd
  \/ PassReachable \/ PassDominators \/ PassPrunePhis \/ PassEffects \/ PassDCE
  \/ PassGVN \/ PassGCM

SpecExpr == InitHIR /\ [][NextExpr]_vars
\* ===========================================================================
\* Properties of the HIR graph

\* The instructions and the blocks of the graph
Instrs == 1 .. Len(hgen.instrs)

Blocks == 1 .. Len(hgen.blocks)

\* The graph exists: the visit of the function has begun
Building == hpc # "idle"

\* How often x is in the list s
Count(s, x) == Cardinality({k \in 1 .. Len(s) : s[k] = x})

\* C4: After HIR construction, and after the replacements of phi pruning and
\* of value numbering, the use lists are the exact reverse of the argument
\* lists: j is as often in the uses of i as i is in the arguments of j, for
\* every instruction j that has not been removed; an instruction that has
\* been replaced and removed has no use left and is in no use list.
C4_UsesMirrorArgs ==
  hpc \in {"built", "reachable", "dominators", "pruned", "effects", "dce", "done",
           "scheduled"} =>
    \A i, j \in Instrs :
      /\ Count(hgen.instrs[i].uses, j) =
           IF hgen.instrs[j].removed THEN 0 ELSE Count(hgen.instrs[j].args, i)
      /\ hgen.instrs[j].removed => hgen.instrs[j].uses = <<>>

\* A phi has been replaced by its only input, an instruction by its copy, and
\* the instruction that stands in for it has taken over a use
C4_Witness ==
  /\ hpc = "done"
  /\ \E p \in Instrs : hgen.instrs[p].removed /\ hgen.instrs[p].kind = "Phi"
  /\ \E i \in Instrs :
       /\ hgen.instrs[i].removed /\ hgen.instrs[i].kind = "BinOp"
       /\ \E n \in Instrs :
            /\ ~hgen.instrs[n].removed
            /\ GVNKey(hgen.instrs[n]) = GVNKey(hgen.instrs[i])
            /\ \E j \in SeqSet(hgen.instrs[n].uses) :
                 /\ ~hgen.instrs[j].removed
                 /\ Count(hgen.instrs[j].args, n) = 2
                 /\ Count(hgen.instrs[n].uses, j) = 2

\* C5 as stated: in the graph the visit of the function leaves, every block
\* has at most 2 predecessors and at most 2 successors, and every block that
\* holds a phi has at least 2 predecessors.
C5_PhiBlocksJoinAsStated ==
  hpc = "built" =>
    \A b \in Blocks :
      /\ Len(hgen.blocks[b].pred) <= 2
      /\ Len(hgen.blocks[b].succ) <= 2
      /\ hgen.blocks[b].phis # <<>> => Len(hgen.blocks[b].pred) >= 2

\* C5: every block has at most 2 predecessors and at most 2 successors at
\* every moment of the compilation, and once the phis have been pruned every
\* block that holds a phi has at least 2 predecessors.
C5_PhiBlocksJoinOncePruned ==
  Building =>
    \A b \in Blocks :
      /\ Len(hgen.blocks[b].pred) <= 2
      /\ Len(hgen.blocks[b].succ) <= 2
      /\ (hpc \in {"pruned", "effects", "dce", "done", "scheduled"}
            /\ hgen.blocks[b].phis # <<>>)
           => Len(hgen.blocks[b].pred) >= 2

\* The phis have been pruned: a phi with one input, in a block with one
\* predecessor, has been replaced, and a block with two predecessors holds a
\* phi; a block has two successors.
C5_Witness ==
  /\ hpc = "pruned"
  /\ \E p \in Instrs :
       /\ hgen.instrs[p].removed /\ hgen.instrs[p].kind = "Phi"
       /\ Len(hgen.blocks[hgen.instrs[p].block].pred) = 1
  /\ \E b \in Blocks : hgen.blocks[b].phis # <<>> /\ Len(hgen.blocks[b].pred) = 2
  /\ \E b \in Blocks : Len(hgen.blocks[b].succ) = 2
\* The blocks that paths from the root reach without passing block `avoid`
RECURSIVE ReachAvoiding(_, _)
ReachAvoiding(seen, avoid) ==
  LET Grown(more) == IF more = {} THEN seen ELSE ReachAvoiding(seen \cup more, avoid)
  IN Grown({t \in Blocks : t # avoid /\ t \notin seen
              /\ \E b \in seen : t \in SeqSet(hgen.blocks[b].succ)})

Reachable == ReachAvoiding({1}, 0)

\* HIRBlock::dominator_depth: the number of dominator links between the block
\* and a block without dominator, -1 if the links do not end
RECURSIVE DepthFrom(_, _)
DepthFrom(b, fuel) ==
  LET Deeper(up) == IF up = -1 THEN -1 ELSE up + 1
  IN IF hgen.blocks[b].dominator = 0 THEN 0
     ELSE IF fuel = 0 THEN -1
     ELSE Deeper(DepthFrom(hgen.blocks[b].dominator, fuel - 1))

dominator_depth(b) == DepthFrom(b, Len(hgen.blocks))

\* The blocks the dominator links lead to from b, in at most n steps
RECURSIVE DominatorChain(_, _)
DominatorChain(b, n) ==
  IF n = 0 \/ hgen.blocks[b].dominator = 0 THEN {b}
  ELSE {b} \cup DominatorChain(hgen.blocks[b].dominator, n - 1)

ListedPhis == UNION {SeqSet(hgen.blocks[b].phis) : b \in Blocks}

\* The inputs of a phi
Inputs(p) == {InputAt(hgen, p, k) : k \in 0 .. hgen.instrs[p].input_count - 1}

\* C7: After PrunePhis, every phi that remains in the phi list of a block has
\* at least 2 distinct inputs and at least 1 use.
C7_PrunedPhisUsed ==
  hpc = "pruned" =>
    \A p \in ListedPhis :
      /\ Cardinality(Inputs(p)) >= 2
      /\ hgen.instrs[p].uses # <<>>

\* C8: Running PrunePhis a second time directly after the first changes
\* nothing: the instructions and the blocks, with their phi lists, are the
\* same after it.
C8_PrunePhisTwice ==
  hpc = "pruned" =>
    /\ PrunePhis(hgen).instrs = hgen.instrs
    /\ PrunePhis(hgen).blocks = hgen.blocks

\* C9: Running EliminateDeadCode right after its first run, or
\* GlobalValueNumbering right after its first run, changes no instruction (no
\* replacement, no deletion) and no block: every instruction list holds the
\* same instructions in the same order.
C9_PassesTwice ==
  /\ hpc = "dce" =>
       /\ EliminateDeadCode(hgen).instrs = hgen.instrs
       /\ EliminateDeadCode(hgen).blocks = hgen.blocks
  /\ hpc = "done" =>
       /\ GlobalValueNumbering(hgen).instrs = hgen.instrs
       /\ GlobalValueNumbering(hgen).blocks = hgen.blocks

\* Value numbering has replaced an instruction, and the dead code elimination
\* before it has dropped an instruction from a list that keeps two or more
C9_Witness ==
  /\ hpc = "done"
  /\ \E i \in Instrs : hgen.instrs[i].removed /\ hgen.instrs[i].kind # "Phi"
  /\ \E i \in Instrs :
       /\ ~hgen.instrs[i].is_live /\ ~hgen.instrs[i].removed
       /\ Len(hgen.blocks[hgen.instrs[i].block].instructions) >= 2
\* ===========================================================================
\* Properties of the lowering of expressions

\* The value a return statement has returned
Returned == hgen.instrs[hgen.res].args[1]

\* Block b is the join of a diamond: its two predecessors are the successors
\* of one block and lead nowhere else
Diamond(b) ==
  /\ Len(hgen.blocks[b].pred) = 2
  /\ \E branch \in Blocks : hgen.blocks[branch].succ = hgen.blocks[b].pred
  /\ \A k \in 1 .. 2 : hgen.blocks[hgen.blocks[b].pred[k]].succ = <<b>>

\* Instruction i is a literal of value val
IsLiteral(i, val) == hgen.instrs[i].kind = "Literal" /\ hgen.instrs[i].val = val

\* i = 0; return i && 1
IAnd1 ==
  <<Statement("assign", [k |-> "value", slot |-> 1], [k |-> "literal", val |-> "0"]),
    Statement("return", Nothing, [k |-> "and", lhs |-> [k |-> "value", slot |-> 1],
                                  rhs |-> [k |-> "literal", val |-> "1"]])>>

\* The returned value is the phi of the logic slot in the join of a diamond
LogicPhiReturned ==
  /\ hgen.instrs[Returned].kind = "Phi"
  /\ hgen.blocks[hgen.instrs[Returned].block].envphis[MaxSlots + 1] = Returned
  /\ Returned \in SeqSet(hgen.blocks[hgen.instrs[Returned].block].phis)
  /\ Diamond(hgen.instrs[Returned].block)
  /\ hgen.instrs[Returned].input_count = 2

\* C11 as stated: for `i = 0; return i && 1` the join of the diamond has a phi
\* of the logic slot whose inputs are the value of i, the literal 0, first and
\* the literal 1 second.
C11_LogicPhiAsStated ==
  (hpc = "body" /\ src = IAnd1) =>
    /\ LogicPhiReturned
    /\ IsLiteral(InputAt(hgen, Returned, 0), "0")
    /\ IsLiteral(InputAt(hgen, Returned, 1), "1")

\* C11: for `i = 0; return i && 1` the join of the diamond has a phi of the
\* logic slot whose inputs are the literal 1 first and the value of i, the
\* literal 0, second.
C11_LogicPhiInputs ==
  (hpc = "body" /\ src = IAnd1) =>
    /\ LogicPhiReturned
    /\ IsLiteral(InputAt(hgen, Returned, 0), "1")
    /\ IsLiteral(InputAt(hgen, Returned, 1), "0")
    /\ hgen.blocks[1].env[1] = InputAt(hgen, Returned, 1)

\* `i = 0; return i && 1` has been visited and has returned a phi
C11_Witness ==
  /\ hpc = "body" /\ src = IAnd1
  /\ hgen.instrs[hgen.res].kind = "Return"
  /\ hgen.instrs[Returned].kind = "Phi"

\* Instruction v is a value of the first slot: the value the slot has in the
\* root, or a phi of the slot whose inputs are values of the slot
RECURSIVE SlotValue(_)
SlotValue(v) ==
  \/ v = hgen.blocks[1].env[1]
  \/ /\ hgen.instrs[v].kind = "Phi"
     /\ hgen.blocks[hgen.instrs[v].block].envphis[1] = v
     /\ \A k \in 0 .. hgen.instrs[v].input_count - 1 : SlotValue(InputAt(hgen, v, k))

\* The last instruction of block b
Last(b) == hgen.blocks[b].instructions[Len(hgen.blocks[b].instructions)]

\* Block b holds a goto and nothing else
Forwards(b) ==
  Len(hgen.blocks[b].instructions) = 1 /\ hgen.instrs[Last(b)].kind = "Goto"

\* Instruction v is the value of expression e, a literal, the first slot or a
\* short-circuit operation.  The value of a && b is a phi of the logic slot
\* in a block with two predecessors, Phi(value of b, value of a): the second
\* predecessor is the false successor of the block that branches on the
\* value of a and only forwards, the first ends the evaluation of b that the
\* true successor begins.  The value of a || b is Phi(value of a, value of
\* b), with the sides exchanged.  The value of a is in the block that goes to
\* the branch.
RECURSIVE Lowered(_, _)
Lowered(e, v) ==
  LET Branches(join, branch, own, other, va, vb) ==
        /\ Len(hgen.blocks[branch].succ) = 2
        /\ own = hgen.blocks[branch].succ[IF e.k = "and" THEN 2 ELSE 1]
        /\ Forwards(own)
        /\ hgen.instrs[Last(branch)].kind = "If"
        /\ hgen.instrs[Last(branch)].args = <<va>>
        /\ Len(hgen.blocks[branch].pred) = 1
        /\ hgen.instrs[va].block = hgen.blocks[branch].pred[1]
        /\ hgen.instrs[vb].block = other
        /\ other \in ReachAvoiding({hgen.blocks[branch].succ[IF e.k = "and" THEN 1 ELSE 2]}, join)
        /\ \A b \in ReachAvoiding({own}, join) : Forwards(b)
        /\ Lowered(e.lhs, va)
        /\ Lowered(e.rhs, vb)
      Sides(join, own, other, va, vb) ==
        /\ hgen.blocks[own].pred # <<>>
        /\ Branches(join, hgen.blocks[own].pred[1], own, other, va, vb)
      Phi2(join) ==
        /\ hgen.blocks[join].envphis[MaxSlots + 1] = v
        /\ v \in SeqSet(hgen.blocks[join].phis)
        /\ Len(hgen.blocks[join].pred) = 2
        /\ hgen.instrs[v].input_count = 2
        /\ IF e.k = "and"
           THEN Sides(join, hgen.blocks[join].pred[2], hgen.blocks[join].pred[1],
                      InputAt(hgen, v, 1), InputAt(hgen, v, 0))
           ELSE Sides(join, hgen.blocks[join].pred[1], hgen.blocks[join].pred[2],
                      InputAt(hgen, v, 0), InputAt(hgen, v, 1))
  IN IF e.k = "literal" THEN IsLiteral(v, e.val)
     ELSE IF e.k = "value" THEN SlotValue(v)
     ELSE hgen.instrs[v].kind = "Phi" /\ Phi2(hgen.instrs[v].block)

\* The statement visited last
LastStatement == src[Len(src)]

\* C12: The value of every short-circuit expression a && b is a phi in the
\* join block of its two branches, Phi(value of b, value of a), and b is
\* evaluated only in the blocks of the true successor; the value of a || b is
\* Phi(value of a, value of b), and b is evaluated only in the blocks of the
\* false successor.  The phi is the result of the expression: a return of the
\* expression returns it.
C12_ShortCircuit ==
  (hpc = "body" /\ src # <<>> /\ LastStatement.s = "return"
     /\ LastStatement.e.k \in {"and", "or"}) =>
    /\ hgen.instrs[hgen.res].kind = "Return"
    /\ Lowered(LastStatement.e, Returned)

\* A short-circuit operation whose right operand is a short-circuit operation
\* of the other kind has been returned
C12_Witness ==
  /\ hpc = "body" /\ src # <<>> /\ LastStatement.s = "return"
  /\ LastStatement.e.k = "or" /\ LastStatement.e.rhs.k = "and"
  /\ hgen.instrs[Returned].kind = "Phi"
  /\ hgen.instrs[InputAt(hgen, Returned, 1)].kind = "Phi"
  /\ hgen.instrs[InputAt(hgen, Returned, 1)].input_count = 2

\* A call has been returned
CallReturned ==
  /\ hpc = "body" /\ src # <<>> /\ LastStatement.s = "return"
  /\ LastStatement.e.k = "call"

IsStore(i) == hgen.instrs[i].kind \in {"StoreArg", "StoreVarArg"}

Phis == {p \in Instrs : hgen.instrs[p].kind = "Phi" /\ ~hgen.instrs[p].removed}

\* C14 as stated: when the construction of the function is finished, before
\* the phis are pruned, every phi has exactly as many inputs as its block has
\* predecessors.
C14_PhiInputsAsStated ==
  hpc = "built" =>
    \A p \in Phis :
      hgen.instrs[p].input_count = Len(hgen.blocks[hgen.instrs[p].block].pred)

\* C14: when the construction of the function is finished, before the phis
\* are pruned, every phi has at most as many inputs as its block has
\* predecessors, and never more than 2.
C14_PhiInputs ==
  hpc = "built" =>
    \A p \in Phis :
      /\ hgen.instrs[p].input_count <= Len(hgen.blocks[hgen.instrs[p].block].pred)
      /\ hgen.instrs[p].input_count <= 2
      /\ Len(hgen.instrs[p].args) = hgen.instrs[p].input_count

\* The construction is finished: the header of a loop holds a phi with one
\* input and a phi with two, and a block with one predecessor a phi without
\* input
C14_Witness ==
  /\ hpc = "built"
  /\ \E b \in Blocks :
       /\ hgen.blocks[b].loop /\ Len(hgen.blocks[b].pred) = 2
       /\ \E p, q \in SeqSet(hgen.blocks[b].phis) :
            hgen.instrs[p].input_count = 1 /\ hgen.instrs[q].input_count = 2
  /\ \E p \in Phis :
       /\ hgen.instrs[p].input_count = 0
       /\ Len(hgen.blocks[hgen.instrs[p].block].pred) = 1

\* The instruction that stands for v once the phis are pruned: a phi that has
\* been replaced stands for its first input
RECURSIVE Standing(_)
Standing(v) ==
  IF hgen.instrs[v].kind = "Phi" /\ hgen.instrs[v].removed /\ hgen.instrs[v].input_count = 1
  THEN Standing(InputAt(hgen, v, 0))
  ELSE v

\* The slots of phi p in its block
PhiSlots(p) ==
  {s \in 1 .. MaxSlots + 1 : hgen.blocks[hgen.instrs[p].block].envphis[s] = p}

\* The value of slot s at the end of the k-th predecessor of block b
ValueFrom(b, k, s) == hgen.blocks[hgen.blocks[b].pred[k + 1]].env[s]

\* C15: Every phi that survives pruning is the phi of one slot of its block,
\* the block has two predecessors, and the k-th input of the phi (k = 0, 1)
\* is the value the slot holds at the end of the k-th predecessor, or the
\* instruction that has replaced that value in the pruning.
C15_PhiInputsFollowPredecessors ==
  hpc = "pruned" =>
    \A p \in ListedPhis :
      /\ Cardinality(PhiSlots(p)) = 1
      /\ hgen.instrs[p].input_count = 2
      /\ Len(hgen.blocks[hgen.instrs[p].block].pred) = 2
      /\ \A s \in PhiSlots(p) : \A k \in 0 .. 1 :
           /\ ValueFrom(hgen.instrs[p].block, k, s) # 0
           /\ InputAt(hgen, p, k) = Standing(ValueFrom(hgen.instrs[p].block, k, s))

\* The phis are pruned: the join of an if statement holds a phi, the header
\* of a loop holds a phi, and an input of a phi stands for a phi that has been
\* replaced
C15_Witness ==
  /\ hpc = "pruned"
  /\ \E p \in ListedPhis : ~hgen.blocks[hgen.instrs[p].block].loop
  /\ \E p \in ListedPhis :
       /\ hgen.blocks[hgen.instrs[p].block].loop
       /\ \E s \in PhiSlots(p) :
            ValueFrom(hgen.instrs[p].block, 1, s) # InputAt(hgen, p, 1)
\* ===========================================================================
\* Properties of the passes

\* a = {}; a.b = 1; delete a.b; return a.b
DeleteSource ==
  <<Statement("assign", [k |-> "value", slot |-> 1], Object),
    Statement("assign", Member, [k |-> "literal", val |-> "1"]),
    Statement("expression", Nothing, [k |-> "delete", lhs |-> Member]),
    Statement("return", Nothing, Member)>>

\* The kinds of the instructions of block b, in the order of its list, a
\* literal with its value
Listing(b) ==
  [k \in 1 .. Len(hgen.blocks[b].instructions) |->
     IF hgen.instrs[hgen.blocks[b].instructions[k]].kind = "Literal"
     THEN hgen.instrs[hgen.blocks[b].instructions[k]].val
     ELSE hgen.instrs[hgen.blocks[b].instructions[k]].kind]

\* C16: `a = {}; a.b = 1; delete a.b; return a.b` gives, after the passes of
\* Build, one block whose instructions are Entry, AllocateObject, Literal 1,
\* Literal "b", StoreProperty, Literal "b", DeleteProperty, Nil, Literal "b",
\* LoadProperty, Return: the Nil of the delete and the three literals "b" are
\* in the optimized graph.
C16_DeleteListing ==
  (hpc = "done" /\ src = DeleteSource) =>
    /\ Len(hgen.blocks) = 1
    /\ Listing(1) = <<"Entry", "AllocateObject", "1", "b", "StoreProperty", "b",
                      "DeleteProperty", "Nil", "b", "LoadProperty", "Return">>

\* The kinds of instruction that have side effects
SideEffectKinds ==
  {"Call", "StoreArg", "StoreVarArg", "StoreContext", "StoreProperty", "DeleteProperty",
   "If", "Goto", "Return", "AlignStack", "Entry", "CollectGarbage", "GetStackTrace"}

\* The instructions in the lists of the blocks of h
Listed(h) ==
  UNION {{h.blocks[b].instructions[k] : k \in 1 .. Len(h.blocks[b].instructions)} :
           b \in 1 .. Len(h.blocks)}

\* The instructions of S and everything reachable from them through arguments
RECURSIVE Reaching(_, _)
Reaching(h, S) ==
  IF \A i \in S : \A k \in 1 .. Len(h.instrs[i].args) : h.instrs[i].args[k] \in S
  THEN S
  ELSE Reaching(h, S \cup UNION {{h.instrs[i].args[k] : k \in 1 .. Len(h.instrs[i].args)} :
                                   i \in S})

\* The listed instructions of h that are needed: the ones with side effects
\* and the ones they reach
Needed(h) ==
  Listed(h) \cap Reaching(h, {i \in Listed(h) : h.instrs[i].kind \in SideEffectKinds})

\* list, without the instructions that are not in S
RECURSIVE Kept(_, _)
Kept(list, S) ==
  IF list = <<>> THEN <<>>
  ELSE (IF Head(list) \in S THEN <<Head(list)>> ELSE <<>>) \o Kept(Tail(list), S)

C19_ConstRematerialized ==
  [][(Walk /\ lgen'.err = "") =>
       LET Consts == {c \in 1 .. Len(lgen.intervals_) : is_const(lgen.intervals_[c])}
           Ordinary(u) ==
             /\ lgen.linstr[lgen.luse[u].instr].result # u
             /\ lgen.linstr[lgen.luse[u].instr].type # "Gap"
           Redirected(c, u, r, n) ==
             /\ r > Len(lgen.intervals_)
             /\ lgen'.intervals_[r].type \in {"virtual", "register"}
             /\ lgen'.intervals_[r].split_parent = 0
             /\ lgen'.intervals_[r].ranges = <<<<n - 1, n>>>>
             /\ (n - 1) \in DOMAIN lgen'.linstr
             /\ lgen'.linstr[n - 1].type = "Gap"
             /\ \E m \in 1 .. Len(lgen'.linstr[n - 1].moves) :
                  /\ lgen'.luse[lgen'.linstr[n - 1].moves[m][1]].interval = c
                  /\ lgen'.luse[lgen'.linstr[n - 1].moves[m][2]].interval = r
                  /\ lgen'.luse[lgen'.linstr[n - 1].moves[m][2]].type = "register"
       IN /\ \A c \in Consts :
               /\ is_const(lgen'.intervals_[c])
               /\ c \notin SeqSet(WalkPopulate(lgen).unhandled_)
               /\ \A k \in 1 .. Len(lgen.intervals_[c].uses) :
                    Ordinary(lgen.intervals_[c].uses[k]) =>
                      Redirected(c, lgen.intervals_[c].uses[k],
                                 lgen'.luse[lgen.intervals_[c].uses[k]].interval,
                                 lgen.luse[lgen.intervals_[c].uses[k]].instr)
          /\ \A u, v \in 1 .. Len(lgen.luse) :
               (/\ u # v
                /\ lgen.luse[u].interval \in Consts /\ Ordinary(u)
                /\ lgen.luse[v].interval \in Consts /\ Ordinary(v))
                 => lgen'.luse[u].interval # lgen'.luse[v].interval
          /\ \A i \in SeqSet(lgen'.unhandled_) \cup SeqSet(lgen'.active_)
                      \cup SeqSet(lgen'.inactive_) : ~is_const(lgen'.intervals_[i])]_vars

\* WalkIntervals is over and two uses of one constant were redirected
C19_Witness ==
  /\ pc = "allocate" /\ lgen.err = ""
  /\ \E c \in 1 .. Len(lgen.intervals_) :
       /\ is_const(lgen.intervals_[c])
       /\ \E j, k \in 1 .. Len(lgen.intervals_[c].uses) :
            /\ j # k
            /\ lgen.luse[lgen.intervals_[c].uses[j]].interval # c
            /\ lgen.luse[lgen.intervals_[c].uses[k]].interval # c

\* ===========================================================================
\* Properties of the merge of the environments

\* HIRBlock::Goto of block b up to its call of AddPredecessor
GotoLink(h, b, target) ==
  [HIRAdd(h, b, "Goto", "") EXCEPT !.blocks[b].succ = Append(@, target),
                                   !.blocks[b].ended = TRUE]

\* The calls target->AddPredecessor(b) that the end of the innermost open
\* statement makes: the state each call is made in (h, reached
\* from h0 by the Goto of the predecessor), the block and the predecessor.  The branches of an if statement go to a new block, the loop
\* block of a while statement goes back to the header.
JoinSteps ==
  LET Step(h, b, target) == [h0 |-> h, h |-> GotoLink(h, b, target), this |-> target, b |-> b]
      Steps(h, b, target) ==
        IF h.blocks[b].ended THEN <<>> ELSE <<Step(h, b, target)>>
      Two(h, t, f, join) ==
        Steps(h, t, join) \o Steps(HIRGoto(h, t, join), f, join)
      Back(h, loop, start) == Steps(h, loop, start)
  IN IF Top.kind = "if"
     THEN Two(CreateBlock(hgen), IF Top.a = 0 THEN hgen.current_block_ ELSE Top.a,
              IF Top.a = 0 THEN Top.b ELSE hgen.current_block_, Len(hgen.blocks) + 1)
     ELSE Steps(hgen, hgen.current_block_, Top.b)
          \o Back(HIRGoto(hgen, hgen.current_block_, Top.b), Top.b, Top.a)

\* The innermost open statement can end
Joining == hpc = "body" /\ hgen.err = "" /\ open # <<>>

\* The first call: the environment of this is the one of b
Copied(c, after) ==
  /\ after.err = ""
  /\ after.blocks[c.this].pred = <<c.b>>
  /\ after.blocks[c.this].env = c.h.blocks[c.b].env
  /\ after.blocks[c.this].envphis = c.h.blocks[c.b].envphis
  /\ after.instrs = c.h.instrs

\* What the second call does to slot i, and what it does to the other
\* instructions.  `every` is whether a slot that only one of the two blocks
\* has a value for gets a phi as well.
Merged(c, after, every) ==
  LET old(i) == c.h.blocks[c.this].env[i]
      curr(i) == c.h.blocks[c.b].env[i]
      held(i) == c.h.blocks[c.this].envphis[i]
      Same(i) == old(i) = curr(i)
      Single(i) == ~Same(i) /\ (old(i) = 0 \/ curr(i) = 0) /\ ~every
      Own(i) == ~Same(i) /\ ~Single(i) /\ held(i) # 0 /\ c.h.instrs[held(i)].block = c.this
      New(i) == ~Same(i) /\ ~Single(i) /\ ~Own(i)
      News == {i \in 1 .. MaxSlots + 1 : New(i)}
      Unchanged(i) ==
        /\ after.blocks[c.this].env[i] = old(i)
        /\ after.blocks[c.this].envphis[i] = held(i)
      Propagated(i) ==
        /\ after.blocks[c.this].env[i] = (IF old(i) = 0 THEN curr(i) ELSE old(i))
        /\ after.blocks[c.this].envphis[i] = held(i)
      Appended(i) ==
        /\ Unchanged(i)
        /\ after.instrs[held(i)].args = Append(c.h.instrs[held(i)].args, curr(i))
      Created(i, q) ==
        /\ q \in Len(c.h.instrs) + 1 .. Len(after.instrs)
        /\ after.blocks[c.this].envphis[i] = q
        /\ after.instrs[q].kind = "Phi"
        /\ after.instrs[q].block = c.this
        /\ after.instrs[q].args = <<old(i), curr(i)>>
        /\ q \in SeqSet(after.blocks[c.this].phis)
        /\ q \in SeqSet(after.blocks[c.this].instructions)
  IN /\ after.err = ""
     /\ after.blocks[c.this].pred = Append(c.h.blocks[c.this].pred, c.b)
     /\ \A i \in 1 .. MaxSlots + 1 :
          /\ Same(i) => Unchanged(i)
          /\ Single(i) => Propagated(i)
          /\ Own(i) => Appended(i)
          /\ New(i) => Created(i, after.blocks[c.this].env[i])
     /\ Len(after.instrs) = Len(c.h.instrs) + Cardinality(News)
     /\ \A i, j \in News : i # j => after.blocks[c.this].env[i] # after.blocks[c.this].env[j]
     /\ \A q \in 1 .. Len(c.h.instrs) :
          (\A i \in 1 .. MaxSlots + 1 : ~(Own(i) /\ held(i) = q))
            => after.instrs[q].args = c.h.instrs[q].args

\* The calls of JoinSteps are the ones the program makes, and each one does
\* what is said of the first and of the second call
Joins(every) ==
  \A k \in 1 .. Len(JoinSteps) :
    LET WithSteps(c) ==
          /\ AddPredecessor(c.h, c.this, c.b) = HIRGoto(c.h0, c.b, c.this)
          /\ IF Len(c.h.blocks[c.this].pred) = 0
             THEN Copied(c, AddPredecessor(c.h, c.this, c.b))
             ELSE /\ Len(c.h.blocks[c.this].pred) = 1
                  /\ Merged(c, AddPredecessor(c.h, c.this, c.b), every)
    IN WithSteps(JoinSteps[k])

\* C20 as stated: the second call leaves a slot whose value agrees with the
\* one of b, appends the value of b to the phi this block has for the slot,
\* and in every other case, also when only one of the two has a value for the
\* slot, creates a phi seeded with both values.
C20_MergeAsStated == Joining => Joins(TRUE)

\* C20: on the second AddPredecessor(b) call of a block, for every slot: if
\* the value of the block equals the value of b, or b has no value for the
\* slot, the slot is left unchanged; if the block has no value for the slot,
\* the value of b is assigned to it without a phi; if a phi of this block
\* exists for the slot, the value of b is appended to it; in every other case
\* a new phi seeded with both values is created, added to the block and
\* assigned to the slot.  The first call copies the environment of b.
C20_Merge == Joining => Joins(FALSE)

\* An if statement is about to end whose second branch brings a new value for
\* a slot the first branch has another value for (a phi is created) and
\* where only one of the two branches has a value for another slot
C20_Witness ==
  /\ Joining /\ Top.kind = "if"
  /\ Len(JoinSteps) = 2
  /\ \E i, j \in 1 .. MaxSlots :
       LET c == JoinSteps[2]
           old(s) == c.h.blocks[c.this].env[s]
           curr(s) == c.h.blocks[c.b].env[s]
       IN /\ old(i) # 0 /\ curr(i) # 0 /\ old(i) # curr(i)
          /\ c.h.blocks[c.this].envphis[i] = 0
             \/ c.h.instrs[c.h.blocks[c.this].envphis[i]].block # c.this
          /\ old(j) # curr(j) /\ (old(j) = 0 \/ curr(j) = 0)

\* ---------------------------------------------------------------------------
\* The visit of a statement left the instructions that existed and every
\* block as they were, and its result is a new Nil nothing uses
FreshNil ==
  /\ Len(hgen'.instrs) = Len(hgen.instrs) + 1
  /\ SubSeq(hgen'.instrs, 1, Len(hgen.instrs)) = hgen.instrs
  /\ hgen'.res = Len(hgen'.instrs)
  /\ hgen'.instrs[hgen'.res].kind = "Nil"
  /\ hgen'.instrs[hgen'.res].args = <<>>
  /\ hgen'.instrs[hgen'.res].uses = <<>>
  /\ hgen'.blocks = hgen.blocks
  /\ hgen'.current_block_ = hgen.current_block_

\* The list of every ended block of h holds one Goto, If or Return, at its end
OneControlLast(h) ==
  \A b \in 1 .. Len(h.blocks) :
    h.blocks[b].ended =>
      LET list == h.blocks[b].instructions
      IN /\ list # <<>>
         /\ \A k \in 1 .. Len(list) : IsControl(h.instrs[list[k]]) <=> k = Len(list)

\* C21: the visit of a statement while the current block is ended returns a
\* fresh Nil and leaves the instruction list, the successors and the
\* environment of the block (of every block) unchanged; every ended block
\* holds exactly one control instruction, the last of its list, during and
\* after the construction, after every pass and after GlobalCodeMotion.
C21_EndedBlocks ==
  [][/\ StmtSkipped => FreshNil
     /\ hgen'.err = "" => OneControlLast(hgen')]_vars

\* The code has been moved in a function where a statement was skipped in an
\* ended block: the Nil of the skipped visit is of the block and not in its
\* list, and the motion has put an instruction that is not pinned in front of
\* the control instruction of an ended block
C21_Witness ==
  /\ hpc = "scheduled" /\ hgen.err = ""
  /\ \E n \in Instrs :
       /\ hgen.instrs[n].kind = "Nil"
       /\ hgen.blocks[hgen.instrs[n].block].ended
       /\ n \notin SeqSet(hgen.blocks[hgen.instrs[n].block].instructions)
       /\ ~hgen.instrs[n].removed
  /\ \E b \in Blocks :
       /\ hgen.blocks[b].ended
       /\ \E k \in 1 .. Len(hgen.blocks[b].instructions) :
            ~hgen.instrs[hgen.blocks[b].instructions[k]].pinned

\* ---------------------------------------------------------------------------
\* Every path from the root of the function to block b passes block d
BlockDominates(d, b) == d = b \/ d = 1 \/ b \notin ReachAvoiding({1}, d)

\* The place of instruction i in the list of its block in h, 0 if it is not
\* in the list
PlaceOf(h, i) == IndexOf(h.blocks[h.instrs[i].block].instructions, i)

\* The definitions of h are above their uses: the block of an argument of a
\* listed instruction that is not a phi dominates its block, and it is
\* earlier in the list if it is of the same block; the block of the k-th
\* input of a listed phi dominates the k-th predecessor of the block of the phi
DefsAboveUses(h) ==
  \A u \in 1 .. Len(h.instrs) :
    PlaceOf(h, u) # 0 =>
      \A k \in 1 .. Len(h.instrs[u].args) :
        LET d == h.instrs[u].args[k]
        IN IF h.instrs[u].kind = "Phi"
           THEN /\ PredAt(h, h.instrs[u].block, k - 1) # 0
                /\ BlockDominates(h.instrs[d].block, PredAt(h, h.instrs[u].block, k - 1))
           ELSE /\ BlockDominates(h.instrs[d].block, h.instrs[u].block)
                /\ h.instrs[d].block = h.instrs[u].block
                     => (PlaceOf(h, d) # 0 /\ PlaceOf(h, d) < PlaceOf(h, u))

\* The instructions that GlobalCodeMotion leaves pinned are of the block they
\* were of
PinnedStay ==
  \A i \in 1 .. Len(hgen.instrs) :
    hgen'.instrs[i].pinned => hgen'.instrs[i].block = hgen.instrs[i].block

\* C22: after GlobalCodeMotion, for every instruction u and every argument d
\* of u: if u is not a phi, the block of d dominates (or is) the block of u,
\* and d is before u in the list when both are of one block; if u is a phi,
\* the block of its k-th input dominates (or is) PredAt(k).  The pinned
\* instructions are of the block they were of before.
C22_DefsDominateUses ==
  [][(PassGCM /\ hgen'.err = "") => (DefsAboveUses(hgen') /\ PinnedStay)]_vars

\* ===========================================================================
\* Properties of the live ranges

\* The ranges of interval iv are in increasing order and none reaches into
\* the next
RangesSorted(iv) ==
  \A k \in 1 .. Len(iv.ranges) - 1 :
    /\ iv.ranges[k][1] < iv.ranges[k + 1][1]
    /\ iv.ranges[k][2] <= iv.ranges[k + 1][1]

\* The uses of interval i of g are in the order of the ids of their
\* instructions
UsesSorted(g, i) ==
  \A k \in 1 .. Len(g.intervals_[i].uses) - 1 :
    UseId(g, g.intervals_[i].uses[k]) <= UseId(g, g.intervals_[i].uses[k + 1])

IntervalsSorted(g) ==
  \A i \in 1 .. Len(g.intervals_) :
    RangesSorted(g.intervals_[i]) /\ UsesSorted(g, i)

\* The intervals are sorted after every iteration of the allocation loop
\* that starts in g
RECURSIVE SortedThroughWalk(_)
SortedThroughWalk(g) ==
  IF g.err # "" THEN TRUE
  ELSE /\ IntervalsSorted(g)
       /\ g.unhandled_ # <<>> => SortedThroughWalk(WalkIteration(g))

\* C23: after BuildIntervals, and after the calls of Split, AddRange and Use
\* that the allocation makes, the ranges of every interval are in strictly
\* increasing order and do not overlap, and its uses are sorted by the id of
\* their instruction; the assertion of AddRange does not fail in
\* BuildIntervals.
C23_RangesAndUsesSorted ==
  /\ lgen.err # "AddRange"
  /\ pc \in {"walk", "allocate", "spills", "done"} => IntervalsSorted(lgen)
  /\ pc = "walk" => SortedThroughWalk(WalkPopulate(lgen))

\* ===========================================================================
\* Properties of Split

\* The positions the ranges of interval iv cover
Covered(iv) ==
  UNION {iv.ranges[k][1] .. (iv.ranges[k][2] - 1) : k \in 1 .. Len(iv.ranges)}

\* The list of interval ids is sorted by the starts of the intervals
SortedByStart(g, list) ==
  \A k \in 1 .. Len(list) - 1 :
    IntervalStart(g.intervals_[list[k]]) <= IntervalStart(g.intervals_[list[k + 1]])

\* The Gap at pos holds a move from a use of interval i to a use of interval c
GapMoves(g, pos, i, c) ==
  /\ pos \in DOMAIN g.linstr
  /\ g.linstr[pos].type = "Gap"
  /\ \E m \in 1 .. Len(g.linstr[pos].moves) :
       /\ g.luse[g.linstr[pos].moves[m][1]].interval = i
       /\ g.luse[g.linstr[pos].moves[m][2]].interval = c

\* What Split(i, pos) called in g leaves, when it returns
SplitKeeps(g, i, pos) ==
  LET child == Len(g.intervals_) + 1
      before == g.intervals_[i]
      root == IF before.split_parent = 0 THEN i ELSE before.split_parent
      UseMoved(g1, u) ==
        IF UseId(g, u) >= pos
        THEN /\ u \in SeqSet(g1.intervals_[child].uses)
             /\ u \notin SeqSet(g1.intervals_[i].uses)
             /\ g1.luse[u].interval = child
        ELSE /\ u \in SeqSet(g1.intervals_[i].uses)
             /\ u \notin SeqSet(g1.intervals_[child].uses)
             /\ g1.luse[u].interval = i
      Preserved(g1) ==
        /\ Covered(g1.intervals_[i]) \cup Covered(g1.intervals_[child]) = Covered(before)
        /\ \A p \in Covered(g1.intervals_[i]) : p < pos
        /\ \A p \in Covered(g1.intervals_[child]) : p >= pos
        /\ \A k \in 1 .. Len(before.uses) : UseMoved(g1, before.uses[k])
        /\ g1.intervals_[child].split_parent = root
        /\ g1.intervals_[root].split_parent = 0
        /\ child \in SeqSet(g1.intervals_[root].split_children)
        /\ child \in SeqSet(g1.unhandled_)
        /\ SortedByStart(g1, g1.unhandled_)
        /\ ~IsBlockStart(g1, IntervalEnd(g1.intervals_[i])) => GapMoves(g1, pos, i, child)
      After(g1) == g1.err = "" => Preserved(g1)
  IN After(Split(g, i, pos))

\* The intervals of g that the allocation loop can hand to Split: the
\* intervals of values, which are not fixed and have ranges
Splittable(g) ==
  {i \in 1 .. Len(g.intervals_) :
     /\ is_virtual(g.intervals_[i]) /\ ~g.intervals_[i].fixed
     /\ g.intervals_[i].ranges # <<>>}

\* Split keeps the value for every position inside each interval of `among`
SplitKeepsAmong(g, among) ==
  \A i \in among :
    \A pos \in (IntervalStart(g.intervals_[i]) + 1) .. (IntervalEnd(g.intervals_[i]) - 1) :
      SplitKeeps(g, i, pos)

SpilledIntervals(g) ==
  {i \in 1 .. Len(g.intervals_) : is_stackslot(g.intervals_[i])}

\* C25: after AllocateSpills every spilled interval, the temporary of a gap
\* included, has a spill index in 0 .. spill_index_ - 1, and two spilled
\* intervals with one spill index have no position in common.
C25_SpillSlotsDisjoint ==
  (pc = "done" /\ lgen.err = "") =>
    /\ \A i \in SpilledIntervals(lgen) :
         lgen.intervals_[i].index \in 0 .. (lgen.spill_index_ - 1)
    /\ \A i, j \in SpilledIntervals(lgen) :
         (i # j /\ lgen.intervals_[i].index = lgen.intervals_[j].index)
           => ~RangesOverlap(lgen.intervals_[i], lgen.intervals_[j])

\* AllocateSpills is over: two spilled intervals share a spill index, two
\* others that are live together have different ones, and the temporary of a
\* gap and the interval of a value are both spilled
C25_Witness ==
  /\ pc = "done" /\ lgen.err = ""
  /\ \E i, j \in SpilledIntervals(lgen) :
       i # j /\ lgen.intervals_[i].index = lgen.intervals_[j].index
  /\ \E i, j \in SpilledIntervals(lgen) :
       /\ lgen.intervals_[i].index # lgen.intervals_[j].index
       /\ RangesOverlap(lgen.intervals_[i], lgen.intervals_[j])
  /\ \E i \in SpilledIntervals(lgen) : i \in GapTmps
  /\ \E i \in SpilledIntervals(lgen) : i \notin GapTmps

\* ===========================================================================
\* Properties of the calls

\* The ids of the instructions that have a call
CallIds == {k \in DOMAIN lgen.linstr : lgen.linstr[k].hascall}

\* The value v has been split or spilled
SplitOrSpilled(v) ==
  \/ \E i \in ValueIntervals : lgen.intervals_[i].split_parent = v
  \/ is_stackslot(lgen.intervals_[v])

\* C28: after BuildIntervals the fixed interval of each of the
\* kLIRRegisterCount registers covers the id of every instruction that has a
\* call; once the allocation is over no interval that is not fixed and holds
\* a register covers the id of such an instruction; an interval split in the
\* gap in front of a call covers the id of the call (it is live across the
\* call), and where at most kLIRRegisterCount values are live at every point,
\* so that only the calls take registers away, every value that was split or
\* spilled is live across a call.
C28_CallsTakeAllRegisters ==
  /\ (pc \in {"walk", "allocate", "spills", "done"} /\ lgen.err = "") =>
       \A k \in CallIds : \A r \in 0 .. kLIRRegisterCount - 1 :
         Covers(lgen.intervals_[registers_(r)], k)
  /\ (Allocated /\ lgen.err = "") =>
       \A i \in 1 .. Len(lgen.intervals_) :
         (~IsFixed(lgen.intervals_[i]) /\ is_register(lgen.intervals_[i])) =>
           \A k \in CallIds : ~Covers(lgen.intervals_[i], k)
  /\ \A n \in 1 .. Len(lgen.splits) :
       (lgen.splits[n].pos + 1) \in CallIds =>
         Covers(lgen.splits[n].g.intervals_[lgen.splits[n].i], lgen.splits[n].pos + 1)
  /\ (Allocated /\ lgen.err = "" /\ AtMostLive(kLIRRegisterCount)) =>
       \A v \in Values : SplitOrSpilled(v) => \E k \in CallIds : LiveAt(v, k)

\* The allocation is over in a function with a call, where an interval was
\* split in front of the call and another one elsewhere, a value that is
\* live across the call was split or spilled, and a piece of a value holds a
\* register
C28_Witness ==
  /\ Allocated /\ lgen.err = "" /\ CallIds # {}
  /\ \E n \in 1 .. Len(lgen.splits) : (lgen.splits[n].pos + 1) \in CallIds
  /\ \E n \in 1 .. Len(lgen.splits) : (lgen.splits[n].pos + 1) \notin CallIds
  /\ \E v \in Values : SplitOrSpilled(v) /\ \E k \in CallIds : LiveAt(v, k)
  /\ \E i \in ValueIntervals : is_register(lgen.intervals_[i])

\* ===========================================================================
\* The assertions of Split

\* The call Split(i, pos) on the generator g meets the assertions at the head
\* of LGen::Split
SplitPre(g, i, pos) ==
  /\ ~IsFixed(g.intervals_[i])
  /\ IntervalStart(g.intervals_[i]) < pos
  /\ pos < IntervalEnd(g.intervals_[i])

\* ... and the assertions after the ranges have moved to the child
SplitPost(g, i, pos) ==
  LET Ends(r) ==
        /\ r.err \notin {"Split: fixed", "Split: pos", "Split: post"}
        /\ Len(r.intervals_) > Len(g.intervals_)
        /\ IntervalEnd(r.intervals_[i]) <= pos
        /\ pos <= IntervalStart(r.intervals_[Len(g.intervals_) + 1])
  IN Ends(Split(g, i, pos))

WalkBegin ==
  /\ pc = "walk"
  /\ lgen' = WalkPopulate(lgen)
  /\ pc' = IF lgen'.err # "" THEN "abort"
           ELSE IF lgen'.unhandled_ = <<>> THEN "allocate" ELSE "walking"
  /\ UNCHANGED <<hirvars, flatvars, shape, hasphi, bi, vals, saved, phi, nops, nargs, idx>>

\* One iteration of `while (unhandled_.length() > 0)`
WalkStep ==
  /\ pc = "walking"
  /\ lgen' = WalkIteration(lgen)
  /\ pc' = IF lgen'.err # "" THEN "abort"
           ELSE IF lgen'.unhandled_ = <<>> THEN "allocate" ELSE "walking"
  /\ UNCHANGED <<hirvars, flatvars, shape, hasphi, bi, vals, saved, phi, nops, nargs, idx>>

NextWalk ==
  \/ Flatten \/ Label \/ Entry \/ ArgIndex \/ LoadArg \/ Phi
  \/ Literal \/ LoadContext \/ AllocateObject \/ StoreContext \/ BinOp \/ Call
  \/ Return \/ If \/ Goto \/ GotoPhi
  \/ LiveSets \/ Build \/ WalkBegin \/ WalkStep \/ Resolve \/ Spills

\* The loop is sequential code: an iteration that can run does run.  This is
\* WF_vars(WalkStep) with ENABLED <<WalkStep>>_vars written as the state
\* predicate it equals: in the loop an iteration is defined for every
\* generator and changes it (the second part of C30_WalkTerminates).
WalkFair == []<>(pc # "walking") \/ []<><<WalkStep>>_vars

SpecWalk == InitLIR /\ [][NextWalk]_vars /\ WalkFair

\* The interval an iteration takes from unhandled_ holds a register or a stack
\* slot when the iteration ends
TakenIsPlaced ==
  WalkStep =>
    /\ lgen'.err # "WalkIntervals: assert"
    /\ lgen'.err = "" =>
         \/ is_register(lgen'.intervals_[Head(lgen.unhandled_)])
         \/ is_stackslot(lgen'.intervals_[Head(lgen.unhandled_)])

C26_DominatesAreChildren ==
  hpc = "dominators" =>
    \A d \in Reachable : \A w \in Reachable :
      (w \in SeqSet(hgen.blocks[d].dominates)) <=> (hgen.blocks[w].dominator = d)

\* ===========================================================================
\* LGen::FlattenBlocks on the functions of the builder, one iteration of its
\* loop at a time.  The LGen is constructed when HIRGen::Build is over.

\* LGen::LGen, and FlattenBlocks up to its loop: the root is in the queue
FlattenStart ==
  /\ hpc = "scheduled" /\ hgen.err = ""
  /\ hpc' = "flatten"
  /\ lgen' = NewLGen(hgen.blocks)
  /\ work_queue' = <<1>>
  /\ visits' = [b \in DOMAIN hgen.blocks |-> 0]
  /\ UNCHANGED <<hgen, open, nstmts, src,
                 pc, shape, hasphi, bi, vals, saved, phi, nops, nargs, idx>>

\* One iteration of the loop of FlattenBlocks
FlattenStep ==
  /\ hpc = "flatten" /\ work_queue # <<>>
  /\ LET b == Head(work_queue)
         skip == IF Len(hgen.blocks[b].pred) = 0 THEN FALSE
                 ELSE IF hgen.blocks[b].loop THEN visits[b] + 1 # 1
                 ELSE visits[b] + 1 # Len(hgen.blocks[b].pred)
     IN /\ visits' = [visits EXCEPT ![b] = @ + 1]
        /\ IF skip
           THEN work_queue' = Tail(work_queue) /\ lgen' = lgen
           ELSE /\ work_queue' = hgen.blocks[b].succ \o Tail(work_queue)
                /\ lgen' = [lgen EXCEPT !.blocks_ = Append(@, b)]
  /\ UNCHANGED <<hirvars, pc, shape, hasphi, bi, vals, saved, phi, nops, nargs, idx>>

NextFlatten == NextHIR \/ FlattenStart \/ FlattenStep

\* The loop of FlattenBlocks runs in one thread until its queue is empty:
\* an iteration that can be taken is taken.
SpecFlatten == InitHIR /\ [][NextFlatten]_vars /\ WF_vars(FlattenStep)

\* FlattenBlocks has returned
Flattened == hpc = "flatten" /\ work_queue = <<>>

\* The place of block b in blocks_, 0 if it is not in the list
FlatPlace(b) == IndexOf(lgen.blocks_, b)

\* The predecessor p of the loop header b is the source of a back edge: the
\* root reaches p only through b
BackEdge(p, b) == p \in Reachable /\ p \notin ReachAvoiding({1}, b)

\* The order of blocks_: every block the root reaches is in the list once, a
\* block that is no loop header after all its predecessors, a loop header
\* after the predecessors that are no sources of back edges and before the
\* others.  A predecessor that the root does not reach is in no list: the
\* order is that of the predecessors the root reaches.
FlatOrder ==
  /\ \A b \in Reachable : Count(lgen.blocks_, b) = 1
  /\ \A b \in Reachable :
       \A p \in SeqSet(hgen.blocks[b].pred) \cap Reachable :
         IF hgen.blocks[b].loop /\ BackEdge(p, b)
         THEN FlatPlace(b) < FlatPlace(p)
         ELSE FlatPlace(p) < FlatPlace(b)

\* C27: FlattenBlocks puts every block that the root reaches into blocks_
\* exactly once, a block that is not a loop header after all its
\* predecessors, a loop header after its predecessor outside the loop and
\* before the predecessor of its back edge; and the work queue becomes empty:
\* the loop terminates.
C27_FlattenBlocks ==
  /\ [](Flattened => FlatOrder)
  /\ (hpc = "flatten") ~> Flattened
====
